---- MODULE Spec2Model ----
(***************************************************************************)
(* Wagering program: session state machine and settlement engine.          *)
(*                                                                         *)
(* The program is an on-chain program: every instruction runs to           *)
(* completion without interleaving, and an instruction that returns an     *)
(* error leaves no trace (ProcessInstruction below).  The handlers are     *)
(* written as operators that return a result record                        *)
(*     [err, gs, ledger]                                                   *)
(* holding the error kind ("Ok" on success), the session record and the    *)
(* ledger as the handler left them when it returned.                       *)
(***************************************************************************)
EXTENDS Integers, Sequences, FiniteSets, TLC

(***************************************************************************)
(* Bounds of the model.                                                    *)
(***************************************************************************)
\* Balance of p1 at start: a stake and one spawn purchase.
FundedBalance == 2100
\* Balance of p2 at start: a stake, no spawn purchase.
StakeBalance == 1100
\* Balance of p3 at start: the smallest stake, and less than the stake of a
\* pay-to-spawn session of the model.
PoorBalance == 1000
\* Stands for u32::MAX (4294967295), the largest value of a kill counter.
KillCounterMax == 11
\* Stands for MAX_BET_AMOUNT (1_000_000_000_000), the largest stake accepted.
MaxBetAmount == 2000
\* Stands for u64::MAX, the largest amount the ledger represents.
AmountMax == 40000
\* Largest value of the clock.
MaxClock == 1
\* Lifetime of a session in clock units.
SessionDuration == 1
\* Most a vault receives from outside the program.
MaxExternalFunds == 1

(***************************************************************************)
(* Program constants.                                                      *)
(***************************************************************************)
MIN_BET_AMOUNT == 1000
DEFAULT_SPAWN_COUNT == 10
EARNINGS_DIVISOR == 10
MAX_SPAWNS_PER_PLAYER == 100
MAX_PLAYERS_PER_TEAM == 5
\* Spawns of a player of a WinnerTakesAll session.
WTA_SPAWN_COUNT == 1

(***************************************************************************)
(* Inputs.                                                                 *)
(***************************************************************************)
SessionIds == {"s1"}
\* A second session identifier, used where sessions are created side by side.
OtherSessionIds == {"s2"}
AllSessionIds == SessionIds \cup OtherSessionIds
Players == {"p1", "p2", "p3"}
Servers == {"gameServer", "attacker"}
TeamIndexes == {0, 1, 2}
FundAmounts == {1005}
\* The killer team and victim team arguments of a kill: every pair of valid
\* indexes, one pair with an invalid killer team and one with an invalid
\* victim team.
KillTeams == ({0, 1} \X {0, 1}) \cup {<<2, 0>>, <<1, 2>>}
WinnerTakesAllOneVsOne == [kind |-> "WinnerTakesAll", size |-> 1]
PayToSpawnOneVsOne == [kind |-> "PayToSpawn", size |-> 1]
\* The sessions created: stake, mode and spawns per purchase.
SessionConfigs ==
    { [bet_amount |-> 1000, game_mode |-> WinnerTakesAllOneVsOne, spawns_per_purchase |-> 10],
      [bet_amount |-> 1005, game_mode |-> PayToSpawnOneVsOne, spawns_per_purchase |-> 1],
      [bet_amount |-> 1005, game_mode |-> PayToSpawnOneVsOne, spawns_per_purchase |-> 20],
      [bet_amount |-> 1005, game_mode |-> PayToSpawnOneVsOne, spawns_per_purchase |-> 95],
      [bet_amount |-> 0, game_mode |-> WinnerTakesAllOneVsOne, spawns_per_purchase |-> 10],
      [bet_amount |-> 1, game_mode |-> WinnerTakesAllOneVsOne, spawns_per_purchase |-> 10],
      [bet_amount |-> MIN_BET_AMOUNT - 1, game_mode |-> PayToSpawnOneVsOne,
       spawns_per_purchase |-> 10],
      [bet_amount |-> MaxBetAmount, game_mode |-> WinnerTakesAllOneVsOne,
       spawns_per_purchase |-> 10],
      [bet_amount |-> MaxBetAmount + 1, game_mode |-> WinnerTakesAllOneVsOne,
       spawns_per_purchase |-> 10] }

\* Pubkey::default(), the content of an empty slot.
Empty == "default"
NoSession == [status |-> "None"]

VARIABLES
    game_session,   \* session id -> GameSession record, or NoSession
    balance_of,     \* the ledger: account -> amount; a vault is keyed by its session id
    clock,          \* Clock::get().unix_timestamp
    deposited,      \* session id -> sum of the amounts successful joins and purchases moved into the vault
    distributed,    \* session id -> sum of the amounts successful distributions paid out
    refused,        \* the sessions a distribution of which failed with InsufficientVaultBalance
    last            \* the last instruction processed and its outcome

vars == <<game_session, balance_of, clock, deposited, distributed, refused, last>>

Accounts == Players \cup AllSessionIds

(***************************************************************************)
(* Ledger adapter (the token program).                                     *)
(***************************************************************************)
\* transfer(from, to, amount) -> ok | fails(InsufficientFunds)
transfer(ledger, from, to, amount) ==
    IF ledger[from] >= amount
    THEN [ok |-> TRUE,
          ledger |-> [a \in DOMAIN ledger |->
                        IF a = from /\ a = to THEN ledger[a]
                        ELSE IF a = from THEN ledger[a] - amount
                        ELSE IF a = to THEN ledger[a] + amount
                        ELSE ledger[a]]]
    ELSE [ok |-> FALSE, ledger |-> ledger]

(***************************************************************************)
(* state.rs: GameMode, Team, GameSession.                                  *)
(***************************************************************************)
players_per_team(game_mode) == game_mode.size

\* The starting spawns of a program that gives every mode the default count.
starting_spawns_default(game_mode) == DEFAULT_SPAWN_COUNT

starting_spawns(game_mode) ==
    IF game_mode.kind = "PayToSpawn" THEN DEFAULT_SPAWN_COUNT ELSE WTA_SPAWN_COUNT

NewTeam(game_mode) ==
    [players       |-> [i \in 1..players_per_team(game_mode) |-> Empty],
     player_kills  |-> [i \in 1..players_per_team(game_mode) |-> 0],
     player_spawns |-> [i \in 1..players_per_team(game_mode) |-> starting_spawns(game_mode)]]

\* The lowest empty slot of a team (1-based), or 0 for Err(TeamIsFull).
get_empty_slot(team, player_count) ==
    IF \E i \in 1..player_count : team.players[i] = Empty
    THEN CHOOSE i \in 1..player_count :
            /\ team.players[i] = Empty
            /\ \A j \in 1..(i - 1) : team.players[j] # Empty
    ELSE 0

check_all_filled_any(gs) ==
    LET player_count == players_per_team(gs.game_mode)
        team_a_full == get_empty_slot(gs.team_a, player_count) = 0
        team_b_full == get_empty_slot(gs.team_b, player_count) = 0
    IN  team_a_full \/ team_b_full

check_all_filled(gs) ==
    LET player_count == players_per_team(gs.game_mode)
        team_a_full == get_empty_slot(gs.team_a, player_count) = 0
        team_b_full == get_empty_slot(gs.team_b, player_count) = 0
    IN  team_a_full /\ team_b_full

\* constraint = game_session.can_add_player() @ WagerError::GameFull
can_add_player(gs) == ~check_all_filled(gs)

contains(players, key) == \E i \in DOMAIN players : players[i] = key

\* The slot (1-based) a player holds in a team, or 0 when the player holds none.
position(players, key) ==
    IF contains(players, key)
    THEN CHOOSE i \in DOMAIN players : players[i] = key
    ELSE 0

is_expired(gs, current_time) == current_time >= gs.expires_at

get_team(gs, team) == IF team = 0 THEN gs.team_a ELSE gs.team_b

set_team(gs, team, t) ==
    IF team = 0 THEN [gs EXCEPT !.team_a = t] ELSE [gs EXCEPT !.team_b = t]

\* What a handler returns: the error kind ("Ok" for Ok(())), and the session
\* and the ledger as the handler left them.
Res(err, gs, ledger) == [err |-> err, gs |-> gs, ledger |-> ledger]

(***************************************************************************)
(* create_game_session.rs                                                  *)
(***************************************************************************)
\* The bet validation of a program that refuses the largest stake.
validate_bet_amount_exclusive_max(bet_amount) ==
    IF ~(bet_amount > 0) THEN "InvalidBetAmount"
    ELSE IF ~(bet_amount < MaxBetAmount) THEN "BetAmountTooHigh"
    ELSE IF ~(bet_amount >= MIN_BET_AMOUNT) THEN "BetAmountTooLow"
    ELSE "Ok"

\* The bet validation of create_game_session_handler.
validate_bet_amount(bet_amount) ==
    IF ~(bet_amount > 0) THEN "InvalidBetAmount"
    ELSE IF ~(bet_amount <= MaxBetAmount) THEN "BetAmountTooHigh"
    ELSE IF ~(bet_amount >= MIN_BET_AMOUNT) THEN "BetAmountTooLow"
    ELSE "Ok"

\* create_game_session of a program that initializes the account whether or
\* not it is in use.
create_game_session_reinitializing(old, ledger, game_server, bet_amount, game_mode, spawns_per_purchase, now) ==
    IF validate_bet_amount(bet_amount) # "Ok"
    THEN Res(validate_bet_amount(bet_amount), old, ledger)
    ELSE Res("Ok",
             [authority           |-> game_server,
              session_bet         |-> bet_amount,
              game_mode           |-> game_mode,
              team_a              |-> NewTeam(game_mode),
              team_b              |-> NewTeam(game_mode),
              status              |-> "WaitingForPlayers",
              created_at          |-> now,
              expires_at          |-> now + SessionDuration,
              spawns_per_purchase |-> spawns_per_purchase],
             ledger)

create_game_session(old, ledger, game_server, bet_amount, game_mode, spawns_per_purchase, now) ==
    IF old # NoSession THEN Res("AccountAlreadyInUse", old, ledger)
    ELSE IF validate_bet_amount(bet_amount) # "Ok"
    THEN Res(validate_bet_amount(bet_amount), old, ledger)
    ELSE Res("Ok",
             [authority           |-> game_server,
              session_bet         |-> bet_amount,
              game_mode           |-> game_mode,
              team_a              |-> NewTeam(game_mode),
              team_b              |-> NewTeam(game_mode),
              status              |-> "WaitingForPlayers",
              created_at          |-> now,
              expires_at          |-> now + SessionDuration,
              spawns_per_purchase |-> spawns_per_purchase],
             ledger)

(***************************************************************************)
(* join_user.rs                                                            *)
(***************************************************************************)
\* join_user of a program that does not compare the named game server with
\* the session's authority.
join_user_any_server(gs, ledger, sid, user, game_server, team, now) ==
    IF gs.status # "WaitingForPlayers" THEN Res("GameNotJoinable", gs, ledger)
    ELSE IF ~can_add_player(gs) THEN Res("GameFull", gs, ledger)
    ELSE IF ~(team = 0 \/ team = 1) THEN Res("InvalidTeamSelection", gs, ledger)
    ELSE IF ~(~contains(gs.team_a.players, user) /\ ~contains(gs.team_b.players, user))
    THEN Res("PlayerAlreadyJoined", gs, ledger)
    ELSE
    LET empty_index == get_empty_slot(get_team(gs, team), players_per_team(gs.game_mode))
        paid == transfer(ledger, user, sid, gs.session_bet)
        t == get_team(gs, team)
        joined == set_team(gs, team, [t EXCEPT !.players[empty_index] = user])
    IN  IF empty_index = 0 THEN Res("TeamIsFull", gs, ledger)
        ELSE IF is_expired(gs, now) THEN Res("GameSessionExpired", gs, ledger)
        ELSE IF ~paid.ok THEN Res("InsufficientUserBalance", gs, ledger)
        ELSE IF check_all_filled(joined)
        THEN Res("Ok", [joined EXCEPT !.status = "InProgress"], paid.ledger)
        ELSE Res("Ok", joined, paid.ledger)

\* join_user of a program that does not look at the session's expiry.
join_user_never_expiring(gs, ledger, sid, user, game_server, team, now) ==
    IF gs.authority # game_server THEN Res("UnauthorizedGameServer", gs, ledger)
    ELSE IF gs.status # "WaitingForPlayers" THEN Res("GameNotJoinable", gs, ledger)
    ELSE IF ~can_add_player(gs) THEN Res("GameFull", gs, ledger)
    ELSE IF ~(team = 0 \/ team = 1) THEN Res("InvalidTeamSelection", gs, ledger)
    ELSE IF ~(~contains(gs.team_a.players, user) /\ ~contains(gs.team_b.players, user))
    THEN Res("PlayerAlreadyJoined", gs, ledger)
    ELSE
    LET empty_index == get_empty_slot(get_team(gs, team), players_per_team(gs.game_mode))
        paid == transfer(ledger, user, sid, gs.session_bet)
        t == get_team(gs, team)
        joined == set_team(gs, team, [t EXCEPT !.players[empty_index] = user])
    IN  IF empty_index = 0 THEN Res("TeamIsFull", gs, ledger)
        ELSE IF ~paid.ok THEN Res("InsufficientUserBalance", gs, ledger)
        ELSE IF check_all_filled(joined)
        THEN Res("Ok", [joined EXCEPT !.status = "InProgress"], paid.ledger)
        ELSE Res("Ok", joined, paid.ledger)

\* join_user of a program without the duplicate-player check.
join_user_no_duplicate_check(gs, ledger, sid, user, game_server, team, now) ==
    IF gs.authority # game_server THEN Res("UnauthorizedGameServer", gs, ledger)
    ELSE IF gs.status # "WaitingForPlayers" THEN Res("GameNotJoinable", gs, ledger)
    ELSE IF ~can_add_player(gs) THEN Res("GameFull", gs, ledger)
    ELSE IF ~(team = 0 \/ team = 1) THEN Res("InvalidTeamSelection", gs, ledger)
    ELSE
    LET empty_index == get_empty_slot(get_team(gs, team), players_per_team(gs.game_mode))
        paid == transfer(ledger, user, sid, gs.session_bet)
        t == get_team(gs, team)
        joined == set_team(gs, team, [t EXCEPT !.players[empty_index] = user])
    IN  IF empty_index = 0 THEN Res("TeamIsFull", gs, ledger)
        ELSE IF is_expired(gs, now) THEN Res("GameSessionExpired", gs, ledger)
        ELSE IF ~paid.ok THEN Res("InsufficientUserBalance", gs, ledger)
        ELSE IF check_all_filled(joined)
        THEN Res("Ok", [joined EXCEPT !.status = "InProgress"], paid.ledger)
        ELSE Res("Ok", joined, paid.ledger)

\* join_user of a program that claims the slot whether or not the stake was
\* paid.
join_user_ignoring_debit(gs, ledger, sid, user, game_server, team, now) ==
    IF gs.authority # game_server THEN Res("UnauthorizedGameServer", gs, ledger)
    ELSE IF gs.status # "WaitingForPlayers" THEN Res("GameNotJoinable", gs, ledger)
    ELSE IF ~can_add_player(gs) THEN Res("GameFull", gs, ledger)
    ELSE IF ~(team = 0 \/ team = 1) THEN Res("InvalidTeamSelection", gs, ledger)
    ELSE IF ~(~contains(gs.team_a.players, user) /\ ~contains(gs.team_b.players, user))
    THEN Res("PlayerAlreadyJoined", gs, ledger)
    ELSE
    LET empty_index == get_empty_slot(get_team(gs, team), players_per_team(gs.game_mode))
        paid == transfer(ledger, user, sid, gs.session_bet)
        t == get_team(gs, team)
        joined == set_team(gs, team, [t EXCEPT !.players[empty_index] = user])
    IN  IF empty_index = 0 THEN Res("TeamIsFull", gs, ledger)
        ELSE IF is_expired(gs, now) THEN Res("GameSessionExpired", gs, ledger)
        ELSE IF check_all_filled(joined)
        THEN Res("Ok", [joined EXCEPT !.status = "InProgress"], paid.ledger)
        ELSE Res("Ok", joined, paid.ledger)

\* join_user of a program that seats the player in the first slot of a team
\* without an empty slot.
join_user_replacing(gs, ledger, sid, user, game_server, team, now) ==
    IF gs.authority # game_server THEN Res("UnauthorizedGameServer", gs, ledger)
    ELSE IF gs.status # "WaitingForPlayers" THEN Res("GameNotJoinable", gs, ledger)
    ELSE IF ~can_add_player(gs) THEN Res("GameFull", gs, ledger)
    ELSE IF ~(team = 0 \/ team = 1) THEN Res("InvalidTeamSelection", gs, ledger)
    ELSE IF ~(~contains(gs.team_a.players, user) /\ ~contains(gs.team_b.players, user))
    THEN Res("PlayerAlreadyJoined", gs, ledger)
    ELSE
    LET empty_index == get_empty_slot(get_team(gs, team), players_per_team(gs.game_mode))
        seat == IF empty_index = 0 THEN 1 ELSE empty_index
        paid == transfer(ledger, user, sid, gs.session_bet)
        t == get_team(gs, team)
        joined == set_team(gs, team, [t EXCEPT !.players[seat] = user])
    IN  IF is_expired(gs, now) THEN Res("GameSessionExpired", gs, ledger)
        ELSE IF ~paid.ok THEN Res("InsufficientUserBalance", gs, ledger)
        ELSE IF check_all_filled(joined)
        THEN Res("Ok", [joined EXCEPT !.status = "InProgress"], paid.ledger)
        ELSE Res("Ok", joined, paid.ledger)

join_user(gs, ledger, sid, user, game_server, team, now) ==
    \* account constraints
    IF gs.authority # game_server THEN Res("UnauthorizedGameServer", gs, ledger)
    ELSE IF gs.status # "WaitingForPlayers" THEN Res("GameNotJoinable", gs, ledger)
    ELSE IF ~can_add_player(gs) THEN Res("GameFull", gs, ledger)
    \* handler
    ELSE IF gs.status # "WaitingForPlayers" THEN Res("InvalidGameState", gs, ledger)
    ELSE IF ~(team = 0 \/ team = 1) THEN Res("InvalidTeamSelection", gs, ledger)
    ELSE IF ~(~contains(gs.team_a.players, user) /\ ~contains(gs.team_b.players, user))
    THEN Res("PlayerAlreadyJoined", gs, ledger)
    ELSE
    LET empty_index == get_empty_slot(get_team(gs, team), players_per_team(gs.game_mode))
        paid == transfer(ledger, user, sid, gs.session_bet)
        t == get_team(gs, team)
        joined == set_team(gs, team, [t EXCEPT !.players[empty_index] = user])
    IN  IF empty_index = 0 THEN Res("TeamIsFull", gs, ledger)
        ELSE IF is_expired(gs, now) THEN Res("GameSessionExpired", gs, ledger)
        ELSE IF ~paid.ok THEN Res("InsufficientUserBalance", gs, ledger)
        ELSE IF check_all_filled(joined)
        THEN Res("Ok", [joined EXCEPT !.status = "InProgress"], paid.ledger)
        ELSE Res("Ok", joined, paid.ledger)

(***************************************************************************)
(* state.rs: add_kill, add_spawns; record_kill.rs, pay_to_spawn.rs         *)
(***************************************************************************)
\* add_kill of a program that clamps the victim's spawns at zero instead of
\* rejecting the kill.
add_kill_clamping(gs, ledger, killer_team, killer_player_index, victim_team, victim_player_index) ==
    IF ~(killer_team = 0 \/ killer_team = 1) THEN Res("InvalidTeam", gs, ledger)
    ELSE IF ~(get_team(gs, killer_team).player_kills[killer_player_index] < KillCounterMax)
    THEN Res("KillCountOverflow", gs, ledger)
    ELSE
    LET kt == get_team(gs, killer_team)
        killed == set_team(gs, killer_team,
                           [kt EXCEPT !.player_kills[killer_player_index] = @ + 1])
        vt == get_team(killed, victim_team)
    IN  IF ~(victim_team = 0 \/ victim_team = 1) THEN Res("InvalidTeam", killed, ledger)
        ELSE IF ~(vt.player_spawns[victim_player_index] > 0)
        THEN Res("Ok", killed, ledger)
        ELSE Res("Ok",
                 set_team(killed, victim_team,
                          [vt EXCEPT !.player_spawns[victim_player_index] = @ - 1]),
                 ledger)

\* add_kill of a program whose kill counter wraps to 0 at its maximum.
add_kill_wrapping(gs, ledger, killer_team, killer_player_index, victim_team, victim_player_index) ==
    IF ~(killer_team = 0 \/ killer_team = 1) THEN Res("InvalidTeam", gs, ledger)
    ELSE
    LET kt == get_team(gs, killer_team)
        killed == set_team(gs, killer_team,
                           [kt EXCEPT !.player_kills[killer_player_index] =
                                        (@ + 1) % (KillCounterMax + 1)])
        vt == get_team(killed, victim_team)
    IN  IF ~(victim_team = 0 \/ victim_team = 1) THEN Res("InvalidTeam", killed, ledger)
        ELSE IF ~(vt.player_spawns[victim_player_index] > 0)
        THEN Res("PlayerHasNoSpawns", killed, ledger)
        ELSE Res("Ok",
                 set_team(killed, victim_team,
                          [vt EXCEPT !.player_spawns[victim_player_index] = @ - 1]),
                 ledger)

\* add_kill of a program that counts the kill and leaves the victim's spawns
\* as they are.
add_kill_sparing(gs, ledger, killer_team, killer_player_index, victim_team, victim_player_index) ==
    IF ~(killer_team = 0 \/ killer_team = 1) THEN Res("InvalidTeam", gs, ledger)
    ELSE IF ~(get_team(gs, killer_team).player_kills[killer_player_index] < KillCounterMax)
    THEN Res("KillCountOverflow", gs, ledger)
    ELSE
    LET kt == get_team(gs, killer_team)
        killed == set_team(gs, killer_team,
                           [kt EXCEPT !.player_kills[killer_player_index] = @ + 1])
        vt == get_team(killed, victim_team)
    IN  IF ~(victim_team = 0 \/ victim_team = 1) THEN Res("InvalidTeam", killed, ledger)
        ELSE IF ~(vt.player_spawns[victim_player_index] > 0)
        THEN Res("PlayerHasNoSpawns", killed, ledger)
        ELSE Res("Ok", killed, ledger)

\* GameSession::add_kill.  Slots are 1-based here, so index i of the code is
\* slot i + 1.  On Err the session is returned as mutated so far.
add_kill(gs, ledger, killer_team, killer_player_index, victim_team, victim_player_index) ==
    IF ~(killer_player_index - 1 < MAX_PLAYERS_PER_TEAM)
    THEN Res("InvalidPlayerIndex", gs, ledger)
    ELSE IF ~(victim_player_index - 1 < MAX_PLAYERS_PER_TEAM)
    THEN Res("InvalidPlayerIndex", gs, ledger)
    ELSE IF ~(killer_team = 0 \/ killer_team = 1) THEN Res("InvalidTeam", gs, ledger)
    ELSE IF ~(get_team(gs, killer_team).player_kills[killer_player_index] < KillCounterMax)
    THEN Res("KillCountOverflow", gs, ledger)
    ELSE
    LET kt == get_team(gs, killer_team)
        killed == set_team(gs, killer_team,
                           [kt EXCEPT !.player_kills[killer_player_index] = @ + 1])
        vt == get_team(killed, victim_team)
    IN  IF ~(victim_team = 0 \/ victim_team = 1) THEN Res("InvalidTeam", killed, ledger)
        ELSE IF ~(vt.player_spawns[victim_player_index] > 0)
        THEN Res("PlayerHasNoSpawns", killed, ledger)
        ELSE Res("Ok",
                 set_team(killed, victim_team,
                          [vt EXCEPT !.player_spawns[victim_player_index] = @ - 1]),
                 ledger)

\* record_kill of a program that books the kill on the first slot of the
\* claimed team when the named player holds no slot of it.
record_kill_first_slot(gs, ledger, game_server, killer_team, killer, victim_team, victim) ==
    IF gs.authority # game_server THEN Res("UnauthorizedGameServer", gs, ledger)
    ELSE IF gs.status # "InProgress" THEN Res("InvalidGameState", gs, ledger)
    ELSE IF ~(killer_team \in {0, 1} /\ victim_team \in {0, 1})
    THEN Res("InvalidTeam", gs, ledger)
    ELSE
    LET killer_player_index == position(get_team(gs, killer_team).players, killer)
        victim_player_index == position(get_team(gs, victim_team).players, victim)
    IN  add_kill(gs, ledger,
                 killer_team, IF killer_player_index = 0 THEN 1 ELSE killer_player_index,
                 victim_team, IF victim_player_index = 0 THEN 1 ELSE victim_player_index)

record_kill(gs, ledger, game_server, killer_team, killer, victim_team, victim) ==
    IF gs.authority # game_server THEN Res("UnauthorizedGameServer", gs, ledger)
    ELSE IF gs.status # "InProgress" THEN Res("InvalidGameState", gs, ledger)
    ELSE IF ~(killer_team \in {0, 1} /\ victim_team \in {0, 1})
    THEN Res("InvalidTeam", gs, ledger)
    ELSE
    LET killer_player_index == position(get_team(gs, killer_team).players, killer)
        victim_player_index == position(get_team(gs, victim_team).players, victim)
    IN  IF killer_player_index = 0 \/ victim_player_index = 0
        THEN Res("PlayerNotFound", gs, ledger)
        ELSE add_kill(gs, ledger, killer_team, killer_player_index,
                      victim_team, victim_player_index)

\* add_spawns of a program that adds ten spawns whatever the session's
\* configured increment.
add_spawns_hardcoded(gs, ledger, team, player_index) ==
    LET t == get_team(gs, team)
    IN  IF ~(team = 0 \/ team = 1) THEN Res("InvalidTeam", gs, ledger)
        ELSE Res("Ok",
                 set_team(gs, team, [t EXCEPT !.player_spawns[player_index] = @ + 10]),
                 ledger)

\* GameSession::add_spawns with the configurable increment.
add_spawns(gs, ledger, team, player_index) ==
    LET spawn_count == gs.spawns_per_purchase
        t == get_team(gs, team)
    IN  IF ~(team = 0 \/ team = 1) THEN Res("InvalidTeam", gs, ledger)
        ELSE Res("Ok",
                 set_team(gs, team, [t EXCEPT !.player_spawns[player_index] = @ + spawn_count]),
                 ledger)

\* pay_to_spawn of a program that sells spawns in every game mode.
pay_to_spawn_any_mode(gs, ledger, sid, user, game_server, team, now) ==
    IF ~(gs.authority = game_server) THEN Res("UnauthorizedPayToSpawn", gs, ledger)
    ELSE IF gs.status # "InProgress" THEN Res("InvalidGameState", gs, ledger)
    ELSE IF ~(team = 0 \/ team = 1) THEN Res("InvalidTeamSelection", gs, ledger)
    ELSE IF is_expired(gs, now) THEN Res("GameSessionExpired", gs, ledger)
    ELSE
    LET player_index == position(get_team(gs, team).players, user)
        paid == transfer(ledger, user, sid, gs.session_bet)
    IN  IF player_index = 0 THEN Res("PlayerNotFound", gs, ledger)
        ELSE IF get_team(gs, team).player_spawns[player_index] + gs.spawns_per_purchase
                    > MAX_SPAWNS_PER_PLAYER
        THEN Res("MaxSpawnsExceeded", gs, ledger)
        ELSE IF ~paid.ok THEN Res("InsufficientUserBalance", gs, ledger)
        ELSE add_spawns(gs, paid.ledger, team, player_index)

\* pay_to_spawn of a program that sells spawns whatever the session's status.
pay_to_spawn_any_status(gs, ledger, sid, user, game_server, team, now) ==
    IF ~(gs.authority = game_server) THEN Res("UnauthorizedPayToSpawn", gs, ledger)
    ELSE IF gs.game_mode.kind # "PayToSpawn" THEN Res("InvalidGameMode", gs, ledger)
    ELSE IF ~(team = 0 \/ team = 1) THEN Res("InvalidTeamSelection", gs, ledger)
    ELSE IF is_expired(gs, now) THEN Res("GameSessionExpired", gs, ledger)
    ELSE
    LET player_index == position(get_team(gs, team).players, user)
        paid == transfer(ledger, user, sid, gs.session_bet)
    IN  IF player_index = 0 THEN Res("PlayerNotFound", gs, ledger)
        ELSE IF get_team(gs, team).player_spawns[player_index] + gs.spawns_per_purchase
                    > MAX_SPAWNS_PER_PLAYER
        THEN Res("MaxSpawnsExceeded", gs, ledger)
        ELSE IF ~paid.ok THEN Res("InsufficientUserBalance", gs, ledger)
        ELSE add_spawns(gs, paid.ledger, team, player_index)

\* pay_to_spawn of a program that accepts any account as the game server.
pay_to_spawn_any_authority(gs, ledger, sid, user, game_server, team, now) ==
    IF gs.status # "InProgress" THEN Res("InvalidGameState", gs, ledger)
    ELSE IF gs.game_mode.kind # "PayToSpawn" THEN Res("InvalidGameMode", gs, ledger)
    ELSE IF ~(team = 0 \/ team = 1) THEN Res("InvalidTeamSelection", gs, ledger)
    ELSE IF is_expired(gs, now) THEN Res("GameSessionExpired", gs, ledger)
    ELSE
    LET player_index == position(get_team(gs, team).players, user)
        paid == transfer(ledger, user, sid, gs.session_bet)
    IN  IF player_index = 0 THEN Res("PlayerNotFound", gs, ledger)
        ELSE IF get_team(gs, team).player_spawns[player_index] + gs.spawns_per_purchase
                    > MAX_SPAWNS_PER_PLAYER
        THEN Res("MaxSpawnsExceeded", gs, ledger)
        ELSE IF ~paid.ok THEN Res("InsufficientUserBalance", gs, ledger)
        ELSE add_spawns(gs, paid.ledger, team, player_index)

\* pay_to_spawn of a program without the per-player spawn cap.
pay_to_spawn_uncapped(gs, ledger, sid, user, game_server, team, now) ==
    IF ~(gs.authority = game_server) THEN Res("UnauthorizedPayToSpawn", gs, ledger)
    ELSE IF gs.status # "InProgress" THEN Res("InvalidGameState", gs, ledger)
    ELSE IF gs.game_mode.kind # "PayToSpawn" THEN Res("InvalidGameMode", gs, ledger)
    ELSE IF ~(team = 0 \/ team = 1) THEN Res("InvalidTeamSelection", gs, ledger)
    ELSE IF is_expired(gs, now) THEN Res("GameSessionExpired", gs, ledger)
    ELSE
    LET player_index == position(get_team(gs, team).players, user)
        paid == transfer(ledger, user, sid, gs.session_bet)
    IN  IF player_index = 0 THEN Res("PlayerNotFound", gs, ledger)
        ELSE IF ~paid.ok THEN Res("InsufficientUserBalance", gs, ledger)
        ELSE add_spawns(gs, paid.ledger, team, player_index)

pay_to_spawn(gs, ledger, sid, user, game_server, team, now) ==
    \* account constraint on game_server
    IF ~(gs.authority = game_server) THEN Res("UnauthorizedPayToSpawn", gs, ledger)
    \* handler
    ELSE IF gs.status # "InProgress" THEN Res("InvalidGameState", gs, ledger)
    ELSE IF gs.game_mode.kind # "PayToSpawn" THEN Res("InvalidGameMode", gs, ledger)
    ELSE IF ~(team = 0 \/ team = 1) THEN Res("InvalidTeamSelection", gs, ledger)
    ELSE IF is_expired(gs, now) THEN Res("GameSessionExpired", gs, ledger)
    ELSE
    LET player_index == position(get_team(gs, team).players, user)
        paid == transfer(ledger, user, sid, gs.session_bet)
    IN  IF player_index = 0 THEN Res("PlayerNotFound", gs, ledger)
        ELSE IF get_team(gs, team).player_spawns[player_index] + gs.spawns_per_purchase
                    > MAX_SPAWNS_PER_PLAYER
        THEN Res("MaxSpawnsExceeded", gs, ledger)
        ELSE IF ~paid.ok THEN Res("InsufficientUserBalance", gs, ledger)
        ELSE add_spawns(gs, paid.ledger, team, player_index)

\* The privileged status-set operation that ends the match.
mark_completed(gs, ledger, game_server) ==
    IF gs.authority # game_server THEN Res("UnauthorizedGameServer", gs, ledger)
    ELSE IF gs.status # "InProgress" THEN Res("InvalidGameState", gs, ledger)
    ELSE Res("Ok", [gs EXCEPT !.status = "Completed"], ledger)

(***************************************************************************)
(* distribute_winnings.rs                                                  *)
(***************************************************************************)
RECURSIVE SumAmounts(_)
SumAmounts(plan) ==
    IF plan = <<>> THEN 0 ELSE plan[1].amount + SumAmounts(Tail(plan))

\* The players of a team in slot order, empty slots left out.
RECURSIVE occupied(_, _)
occupied(team, i) ==
    IF i > Len(team.players) THEN <<>>
    ELSE IF team.players[i] = Empty THEN occupied(team, i + 1)
    ELSE <<[player |-> team.players[i], slot |-> i]>> \o occupied(team, i + 1)

\* checked_mul on the amount width: 0 - 1 stands for None.
checked_mul(a, b) == IF a * b > AmountMax THEN 0 - 1 ELSE a * b

\* The earnings of a program whose multiplication wraps at the amount width.
calculate_earnings_wrapping(kills_and_spawns, session_bet) ==
    ((kills_and_spawns * session_bet) % (AmountMax + 1)) \div EARNINGS_DIVISOR

\* The earnings of a program that rounds the tenth up.
calculate_earnings_rounding_up(kills_and_spawns, session_bet) ==
    IF checked_mul(kills_and_spawns, session_bet) < 0 THEN 0 - 1
    ELSE (checked_mul(kills_and_spawns, session_bet) + EARNINGS_DIVISOR - 1)
            \div EARNINGS_DIVISOR

\* kills_and_spawns.checked_mul(session_bet).and_then(|x| x.checked_div(10))
calculate_earnings(kills_and_spawns, session_bet) ==
    IF checked_mul(kills_and_spawns, session_bet) < 0 THEN 0 - 1
    ELSE checked_mul(kills_and_spawns, session_bet) \div EARNINGS_DIVISOR

\* Winner-takes-all of a program that returns each winner only the stake.
winner_distributions_single_stake(gs, winning_team) ==
    LET winners == occupied(get_team(gs, winning_team), 1)
    IN  [err  |-> "Ok",
         plan |-> [i \in 1..Len(winners) |->
                     [player |-> winners[i].player, amount |-> gs.session_bet]]]

\* Winner-takes-all: every player of the winning team receives session_bet * 2.
winner_distributions(gs, winning_team) ==
    LET winners == occupied(get_team(gs, winning_team), 1)
    IN  [err  |-> "Ok",
         plan |-> [i \in 1..Len(winners) |->
                     [player |-> winners[i].player, amount |-> gs.session_bet * 2]]]

RECURSIVE earnings_of(_, _, _)
earnings_of(team, slots, session_bet) ==
    IF slots = <<>> THEN <<>>
    ELSE LET kills_and_spawns == team.player_kills[slots[1].slot]
                                   + team.player_spawns[slots[1].slot]
             earnings == calculate_earnings(kills_and_spawns, session_bet)
             rest == earnings_of(team, Tail(slots), session_bet)
         IN  IF kills_and_spawns = 0 THEN rest
             ELSE IF earnings > 0 \/ earnings < 0
             THEN <<[player |-> slots[1].player, amount |-> earnings]>> \o rest
             ELSE rest

\* Pay-to-spawn: every player of both teams receives
\* (kills + spawns) * session_bet / 10.
pay_spawn_distributions(gs) ==
    LET plan == earnings_of(gs.team_a, occupied(gs.team_a, 1), gs.session_bet)
                \o earnings_of(gs.team_b, occupied(gs.team_b, 1), gs.session_bet)
    IN  IF gs.game_mode.kind # "PayToSpawn" THEN [err |-> "InvalidGameMode", plan |-> <<>>]
        ELSE IF \E i \in 1..Len(plan) : plan[i].amount < 0
        THEN [err |-> "ArithmeticError", plan |-> <<>>]
        ELSE [err |-> "Ok", plan |-> plan]

\* transfer_tokens of a program that keeps the stakes of every session in one
\* vault.
transfer_tokens_shared_vault(ledger, sid, player_account, amount, rejecting) ==
    IF player_account \in rejecting THEN [ok |-> FALSE, ledger |-> ledger]
    ELSE transfer(ledger, CHOOSE v \in AllSessionIds : \A w \in AllSessionIds : ledger[v] >= ledger[w],
                  player_account, amount)

\* One transfer from the vault to a player; `rejecting` are the recipient
\* accounts the token program refuses to credit.
transfer_tokens(ledger, sid, player_account, amount, rejecting) ==
    IF player_account \in rejecting THEN [ok |-> FALSE, ledger |-> ledger]
    ELSE transfer(ledger, sid, player_account, amount)

\* rollback_transfers of a program that leaves the transfers already made in
\* place.
rollback_transfers_keeping(ledger, sid, successful_transfers) == ledger

RECURSIVE rollback_transfers(_, _, _)
rollback_transfers(ledger, sid, successful_transfers) ==
    IF successful_transfers = <<>> THEN ledger
    ELSE rollback_transfers(
            transfer(ledger, successful_transfers[1].player, sid,
                     successful_transfers[1].amount).ledger,
            sid, Tail(successful_transfers))

\* The transfer loop of a program that skips a transfer that fails.
RECURSIVE transfer_loop_skipping(_, _, _, _, _)
transfer_loop_skipping(ledger, sid, plan, i, rejecting) ==
    IF i > Len(plan)
    THEN [ok |-> TRUE, ledger |-> ledger, successful_transfers |-> plan]
    ELSE LET sent == transfer_tokens(ledger, sid, plan[i].player, plan[i].amount, rejecting)
         IN  transfer_loop_skipping(sent.ledger, sid, plan, i + 1, rejecting)

\* The transfer loop: stops at the first transfer that fails.
RECURSIVE transfer_loop(_, _, _, _, _)
transfer_loop(ledger, sid, plan, i, rejecting) ==
    IF i > Len(plan)
    THEN [ok |-> TRUE, ledger |-> ledger, successful_transfers |-> plan]
    ELSE LET sent == transfer_tokens(ledger, sid, plan[i].player, plan[i].amount, rejecting)
         IN  IF sent.ok THEN transfer_loop(sent.ledger, sid, plan, i + 1, rejecting)
             ELSE [ok |-> FALSE, ledger |-> ledger,
                   successful_transfers |-> SubSeq(plan, 1, i - 1)]

\* distribute_winnings of a program that does not compare the total with the
\* vault balance.
distribute_winnings_no_total_check(gs, ledger, sid, distributions, rejecting) ==
    IF ~(gs.status = "Completed") THEN Res("GameNotComplete", gs, ledger)
    ELSE IF distributions.err # "Ok" THEN Res(distributions.err, gs, ledger)
    ELSE
    LET done == transfer_loop(ledger, sid, distributions.plan, 1, rejecting)
    IN  IF ~done.ok
        THEN Res("TransferFailed", gs,
                 rollback_transfers(done.ledger, sid, done.successful_transfers))
        ELSE Res("Ok", [gs EXCEPT !.status = "Distributed"], done.ledger)

\* distribute_winnings of a program that does not look at the status.
distribute_winnings_any_status(gs, ledger, sid, distributions, rejecting) ==
    IF distributions.err # "Ok" THEN Res(distributions.err, gs, ledger)
    ELSE
    LET total_distribution == SumAmounts(distributions.plan)
        vault_balance == ledger[sid]
        done == transfer_loop(ledger, sid, distributions.plan, 1, rejecting)
    IN  IF ~(vault_balance >= total_distribution)
        THEN Res("InsufficientVaultBalance", gs, ledger)
        ELSE IF ~done.ok
        THEN Res("TransferFailed", gs,
                 rollback_transfers(done.ledger, sid, done.successful_transfers))
        ELSE Res("Ok", [gs EXCEPT !.status = "Distributed"], done.ledger)

\* distribute_winnings of a program that pays and leaves the status as it is.
distribute_winnings_keeping_status(gs, ledger, sid, distributions, rejecting) ==
    IF ~(gs.status = "Completed") THEN Res("GameNotComplete", gs, ledger)
    ELSE IF distributions.err # "Ok" THEN Res(distributions.err, gs, ledger)
    ELSE
    LET total_distribution == SumAmounts(distributions.plan)
        vault_balance == ledger[sid]
        done == transfer_loop(ledger, sid, distributions.plan, 1, rejecting)
    IN  IF ~(vault_balance >= total_distribution)
        THEN Res("InsufficientVaultBalance", gs, ledger)
        ELSE IF ~done.ok
        THEN Res("TransferFailed", gs,
                 rollback_transfers(done.ledger, sid, done.successful_transfers))
        ELSE Res("Ok", gs, done.ledger)

distribute_winnings(gs, ledger, sid, distributions, rejecting) ==
    IF ~(gs.status = "Completed") THEN Res("GameNotComplete", gs, ledger)
    ELSE IF distributions.err # "Ok" THEN Res(distributions.err, gs, ledger)
    ELSE
    LET total_distribution == SumAmounts(distributions.plan)
        vault_balance == ledger[sid]
        done == transfer_loop(ledger, sid, distributions.plan, 1, rejecting)
    IN  IF ~(vault_balance >= total_distribution)
        THEN Res("InsufficientVaultBalance", gs, ledger)
        ELSE IF ~done.ok
        THEN Res("TransferFailed", gs,
                 rollback_transfers(done.ledger, sid, done.successful_transfers))
        ELSE Res("Ok", [gs EXCEPT !.status = "Distributed"], done.ledger)

distribute_all_winnings_handler(gs, ledger, sid, game_server, winning_team, rejecting) ==
    IF gs.authority # game_server THEN Res("UnauthorizedGameServer", gs, ledger)
    ELSE IF ~(winning_team = 0 \/ winning_team = 1)
    THEN Res("InvalidTeamSelection", gs, ledger)
    ELSE distribute_winnings(gs, ledger, sid, winner_distributions(gs, winning_team), rejecting)

\* distribute_pay_spawn_earnings of a program that does not compare the
\* signer with the session's authority.
distribute_pay_spawn_earnings_any_signer(gs, ledger, sid, game_server, rejecting) ==
    distribute_winnings(gs, ledger, sid, pay_spawn_distributions(gs), rejecting)

distribute_pay_spawn_earnings(gs, ledger, sid, game_server, rejecting) ==
    IF gs.authority # game_server THEN Res("UnauthorizedGameServer", gs, ledger)
    ELSE distribute_winnings(gs, ledger, sid, pay_spawn_distributions(gs), rejecting)

(***************************************************************************)
(* The runtime: an instruction commits its effects only when it returns    *)
(* Ok(()); an instruction that returns an error changes nothing.           *)
(***************************************************************************)
ProcessInstruction(op, sid, res, deposit, payout) ==
    /\ last' = [op |-> op, err |-> res.err]
    /\ IF res.err = "Ok"
       THEN /\ game_session' = [game_session EXCEPT ![sid] = res.gs]
            /\ balance_of' = res.ledger
            /\ deposited' = [deposited EXCEPT ![sid] = @ + deposit]
            /\ distributed' = [distributed EXCEPT ![sid] = @ + payout]
       ELSE UNCHANGED <<game_session, balance_of, deposited, distributed>>
    /\ refused' = IF res.err = "InsufficientVaultBalance" THEN refused \cup {sid}
                  ELSE refused
    /\ UNCHANGED clock

\* An instruction on a session account that does not exist.
Missing == Res("AccountNotInitialized", NoSession, balance_of)

Init ==
    /\ game_session = [sid \in AllSessionIds |-> NoSession]
    /\ balance_of = [a \in Accounts |->
                        IF a \in AllSessionIds THEN 0
                        ELSE IF a = "p1" THEN FundedBalance
                        ELSE IF a = "p2" THEN StakeBalance
                        ELSE PoorBalance]
    /\ clock = 0
    /\ deposited = [sid \in AllSessionIds |-> 0]
    /\ distributed = [sid \in AllSessionIds |-> 0]
    /\ refused = {}
    /\ last = [op |-> "None", err |-> "Ok"]

CreateSession(sid, game_server, bet_amount, game_mode, spawns_per_purchase) ==
    ProcessInstruction("CreateSession", sid,
        create_game_session(game_session[sid], balance_of, game_server, bet_amount,
                            game_mode, spawns_per_purchase, clock),
        0, 0)

JoinTeam(sid, user, game_server, team) ==
    LET gs == game_session[sid]
    IN  ProcessInstruction("JoinTeam", sid,
            IF gs = NoSession THEN Missing
            ELSE join_user(gs, balance_of, sid, user, game_server, team, clock),
            IF gs = NoSession THEN 0 ELSE gs.session_bet, 0)

RecordKill(sid, game_server, killer_team, killer, victim_team, victim) ==
    LET gs == game_session[sid]
    IN  ProcessInstruction("RecordKill", sid,
            IF gs = NoSession THEN Missing
            ELSE record_kill(gs, balance_of, game_server, killer_team, killer,
                             victim_team, victim),
            0, 0)

PurchaseSpawns(sid, user, game_server, team) ==
    LET gs == game_session[sid]
    IN  ProcessInstruction("PurchaseSpawns", sid,
            IF gs = NoSession THEN Missing
            ELSE pay_to_spawn(gs, balance_of, sid, user, game_server, team, clock),
            IF gs = NoSession THEN 0 ELSE gs.session_bet, 0)

MarkCompleted(sid, game_server) ==
    LET gs == game_session[sid]
    IN  ProcessInstruction("MarkCompleted", sid,
            IF gs = NoSession THEN Missing
            ELSE mark_completed(gs, balance_of, game_server),
            0, 0)

DistributeWinnerTakesAll(sid, game_server, winning_team, rejecting) ==
    LET gs == game_session[sid]
    IN  ProcessInstruction("DistributeWinnerTakesAll", sid,
            IF gs = NoSession THEN Missing
            ELSE distribute_all_winnings_handler(gs, balance_of, sid, game_server,
                                                 winning_team, rejecting),
            0,
            IF gs = NoSession THEN 0
            ELSE SumAmounts(winner_distributions(gs, winning_team).plan))

DistributePaySpawnEarnings(sid, game_server, rejecting) ==
    LET gs == game_session[sid]
    IN  ProcessInstruction("DistributePaySpawnEarnings", sid,
            IF gs = NoSession THEN Missing
            ELSE distribute_pay_spawn_earnings(gs, balance_of, sid, game_server, rejecting),
            0,
            IF gs = NoSession THEN 0
            ELSE SumAmounts(pay_spawn_distributions(gs).plan))

\* Time passes.
Tick ==
    /\ clock < MaxClock
    /\ clock' = clock + 1
    /\ UNCHANGED <<game_session, balance_of, deposited, distributed, refused, last>>

\* A plain token transfer into the vault of a session by an account outside
\* the program.
FundVault(sid, amount) ==
    /\ balance_of[sid] - (deposited[sid] - distributed[sid]) < MaxExternalFunds
    /\ balance_of' = [balance_of EXCEPT ![sid] = @ + amount]
    /\ last' = [op |-> "FundVault", err |-> "Ok"]
    /\ UNCHANGED <<game_session, clock, deposited, distributed, refused>>

\* The recipient accounts a distribution finds unusable: none, or that of p1.
Rejecting == {{}, {"p1"}}

Next ==
    \/ \E sid \in SessionIds, c \in SessionConfigs :
            CreateSession(sid, "gameServer", c.bet_amount, c.game_mode, c.spawns_per_purchase)
    \/ \E sid \in SessionIds, user \in Players, srv \in Servers, team \in TeamIndexes :
            JoinTeam(sid, user, srv, team)
    \/ \E sid \in SessionIds, srv \in Servers, teams \in KillTeams, k \in Players :
         \E v \in Players \ {k} :
            RecordKill(sid, srv, teams[1], k, teams[2], v)
    \/ \E sid \in SessionIds, user \in Players, srv \in Servers, team \in TeamIndexes :
            PurchaseSpawns(sid, user, srv, team)
    \/ \E sid \in SessionIds, srv \in Servers : MarkCompleted(sid, srv)
    \/ \E sid \in SessionIds, srv \in Servers, team \in TeamIndexes, rej \in Rejecting :
            DistributeWinnerTakesAll(sid, srv, team, rej)
    \/ \E sid \in SessionIds, srv \in Servers, rej \in Rejecting :
            DistributePaySpawnEarnings(sid, srv, rej)

Spec == Init /\ [][Next]_vars

\* The program while time passes.
NextTimed ==
    \/ Next
    \/ Tick

SpecTimed == Init /\ [][NextTimed]_vars

\* The program together with external deposits into a vault.
NextExt ==
    \/ Next
    \/ \E sid \in SessionIds, amount \in FundAmounts : FundVault(sid, amount)

SpecExt == Init /\ [][NextExt]_vars

\* Sessions created side by side under two identifiers, and the joins to them.
NextSessions ==
    \/ \E sid \in AllSessionIds, c \in SessionConfigs :
            CreateSession(sid, "gameServer", c.bet_amount, c.game_mode, c.spawns_per_purchase)
    \/ \E sid \in AllSessionIds, user \in Players, srv \in Servers, team \in TeamIndexes :
            JoinTeam(sid, user, srv, team)

SpecSessions == Init /\ [][NextSessions]_vars

\* The sessions run side by side: one of each mode.
PairConfigs ==
    { [bet_amount |-> 1000, game_mode |-> WinnerTakesAllOneVsOne, spawns_per_purchase |-> 10],
      [bet_amount |-> 1005, game_mode |-> PayToSpawnOneVsOne, spawns_per_purchase |-> 20] }

\* The kills sent to sessions run side by side: by team 0 on team 1, and one
\* with an invalid killer team.
PairKillTeams == {<<0, 1>>, <<2, 0>>}

\* The program with two sessions run side by side, the game server that
\* created them signing every instruction for a valid team index.
NextPair ==
    \/ \E sid \in AllSessionIds, c \in PairConfigs :
            CreateSession(sid, "gameServer", c.bet_amount, c.game_mode, c.spawns_per_purchase)
    \/ \E sid \in AllSessionIds, user \in Players, team \in {0, 1} :
            JoinTeam(sid, user, "gameServer", team)
    \/ \E sid \in AllSessionIds, teams \in PairKillTeams, k \in Players :
         \E v \in Players \ {k} :
            RecordKill(sid, "gameServer", teams[1], k, teams[2], v)
    \/ \E sid \in AllSessionIds, user \in Players, team \in {0, 1} :
            PurchaseSpawns(sid, user, "gameServer", team)
    \/ \E sid \in AllSessionIds : MarkCompleted(sid, "gameServer")
    \/ \E sid \in AllSessionIds, team \in {0, 1} :
            DistributeWinnerTakesAll(sid, "gameServer", team, {})
    \/ \E sid \in AllSessionIds :
            DistributePaySpawnEarnings(sid, "gameServer", {})

SpecPair == Init /\ [][NextPair]_vars

\* The pay-to-spawn sessions of the tests: ten spawns per purchase.
TestConfigs ==
    { [bet_amount |-> 1000, game_mode |-> PayToSpawnOneVsOne, spawns_per_purchase |-> 10],
      [bet_amount |-> 1005, game_mode |-> PayToSpawnOneVsOne, spawns_per_purchase |-> 10] }

\* The program on the pay-to-spawn sessions of the tests.
NextTests ==
    \/ \E sid \in SessionIds, c \in TestConfigs :
            CreateSession(sid, "gameServer", c.bet_amount, c.game_mode, c.spawns_per_purchase)
    \/ \E sid \in SessionIds, user \in Players, srv \in Servers, team \in TeamIndexes :
            JoinTeam(sid, user, srv, team)
    \/ \E sid \in SessionIds, srv \in Servers, teams \in KillTeams, k \in Players :
         \E v \in Players \ {k} :
            RecordKill(sid, srv, teams[1], k, teams[2], v)
    \/ \E sid \in SessionIds, user \in Players, srv \in Servers, team \in TeamIndexes :
            PurchaseSpawns(sid, user, srv, team)
    \/ \E sid \in SessionIds, srv \in Servers : MarkCompleted(sid, srv)
    \/ \E sid \in SessionIds, srv \in Servers, team \in TeamIndexes, rej \in Rejecting :
            DistributeWinnerTakesAll(sid, srv, team, rej)
    \/ \E sid \in SessionIds, srv \in Servers, rej \in Rejecting :
            DistributePaySpawnEarnings(sid, srv, rej)

SpecTests == Init /\ [][NextTests]_vars

(***************************************************************************)
(* Properties.                                                             *)
(***************************************************************************)
Exists(sid) == game_session[sid] # NoSession

\* The instruction is signed by the authority of an existing session.
Authorized(sid, game_server) ==
    /\ Exists(sid)
    /\ game_session[sid].authority = game_server

\* The step changed neither a session nor a balance.
NothingChanged ==
    /\ game_session' = game_session
    /\ balance_of' = balance_of

\* The players a plan pays.
Recipients(plan) == {plan[i].player : i \in 1..Len(plan)}

\* What a plan pays to one player.
RECURSIVE PlannedFor(_, _)
PlannedFor(plan, player) ==
    IF plan = <<>> THEN 0
    ELSE (IF plan[1].player = player THEN plan[1].amount ELSE 0)
         + PlannedFor(Tail(plan), player)

\* C1: in every reachable state the vault balance of every session equals
\* the sum of the amounts moved into the vault by successful JoinTeam and
\* PurchaseSpawns calls minus the sum of the amounts paid out by successful
\* distributions, and it is never negative.
C1_VaultAccounting ==
    \A sid \in SessionIds :
        /\ balance_of[sid] = deposited[sid] - distributed[sid]
        /\ balance_of[sid] >= 0

\* A session that took deposits and paid a distribution out.
C1_Witness ==
    \E sid \in SessionIds :
        /\ deposited[sid] > 0
        /\ distributed[sid] > 0
        /\ last.err = "Ok"

\* C2: a distribution whose payouts sum to more than the vault balance fails
\* with InsufficientVaultBalance, transfers nothing and leaves the status
\* Completed.
C2_TotalCheckedBeforeAnyTransfer ==
    [][( /\ last'.op = "DistributeWinnerTakesAll"
         => \A sid \in SessionIds, srv \in Servers, rej \in Rejecting, team \in {0, 1} :
              ( /\ Authorized(sid, srv)
                /\ game_session[sid].status = "Completed"
                /\ SumAmounts(winner_distributions(game_session[sid], team).plan)
                      > balance_of[sid]
                /\ DistributeWinnerTakesAll(sid, srv, team, rej) )
              => ( /\ last'.err = "InsufficientVaultBalance"
                   /\ NothingChanged
                   /\ game_session'[sid].status = "Completed" ) )
       /\
       ( /\ last'.op = "DistributePaySpawnEarnings"
         => \A sid \in SessionIds, srv \in Servers, rej \in Rejecting :
              ( /\ Authorized(sid, srv)
                /\ game_session[sid].status = "Completed"
                /\ pay_spawn_distributions(game_session[sid]).err = "Ok"
                /\ SumAmounts(pay_spawn_distributions(game_session[sid]).plan)
                      > balance_of[sid]
                /\ DistributePaySpawnEarnings(sid, srv, rej) )
              => ( /\ last'.err = "InsufficientVaultBalance"
                   /\ NothingChanged
                   /\ game_session'[sid].status = "Completed" ) )
    ]_vars

\* A distribution was refused because the vault could not cover the total.
C2_Witness ==
    /\ last.op \in {"DistributeWinnerTakesAll", "DistributePaySpawnEarnings"}
    /\ last.err = "InsufficientVaultBalance"
    /\ \E sid \in SessionIds :
        /\ Exists(sid)
        /\ game_session[sid].status = "Completed"
        /\ SumAmounts(pay_spawn_distributions(game_session[sid]).plan) > balance_of[sid]

\* C3: when a transfer of a settlement batch fails, the distribution fails
\* and nothing of the batch is retained: the vault, every recipient's
\* balance and the status are as before the call.
C3_BatchAllOrNothing ==
    [][( /\ last'.op = "DistributeWinnerTakesAll"
         => \A sid \in SessionIds, srv \in Servers, rej \in Rejecting, team \in {0, 1} :
              ( /\ Authorized(sid, srv)
                /\ game_session[sid].status = "Completed"
                /\ Recipients(winner_distributions(game_session[sid], team).plan)
                      \cap rej # {}
                /\ DistributeWinnerTakesAll(sid, srv, team, rej) )
              => ( /\ last'.err # "Ok"
                   /\ NothingChanged
                   /\ game_session'[sid].status = "Completed" ) )
       /\
       ( /\ last'.op = "DistributePaySpawnEarnings"
         => \A sid \in SessionIds, srv \in Servers, rej \in Rejecting :
              ( /\ Authorized(sid, srv)
                /\ game_session[sid].status = "Completed"
                /\ Recipients(pay_spawn_distributions(game_session[sid]).plan)
                      \cap rej # {}
                /\ DistributePaySpawnEarnings(sid, srv, rej) )
              => ( /\ last'.err # "Ok"
                   /\ NothingChanged
                   /\ game_session'[sid].status = "Completed" ) )
    ]_vars

\* A distribution failed at one of its transfers.
C3_Witness ==
    /\ last.op \in {"DistributeWinnerTakesAll", "DistributePaySpawnEarnings"}
    /\ last.err = "TransferFailed"
    /\ \E sid \in SessionIds : Exists(sid) /\ game_session[sid].status = "Completed"

\* The slots of a session: <<team, slot>>.
Slots(gs) == {0, 1} \X (1..players_per_team(gs.game_mode))

PlayerAt(gs, slot) == get_team(gs, slot[1]).players[slot[2]]

\* C4: in every reachable state each player identity occupies at most one
\* slot across team_a and team_b combined.
C4_PlayerInAtMostOneSlot ==
    \A sid \in SessionIds :
        Exists(sid) =>
            \A s1 \in Slots(game_session[sid]), s2 \in Slots(game_session[sid]) :
                ( /\ PlayerAt(game_session[sid], s1) # Empty
                  /\ PlayerAt(game_session[sid], s1) = PlayerAt(game_session[sid], s2) )
                => s1 = s2

\* A player holding a slot asked for another one and was refused.
C4_Witness ==
    /\ last.op = "JoinTeam"
    /\ last.err = "PlayerAlreadyJoined"
    /\ \E sid \in SessionIds :
        /\ Exists(sid)
        /\ \E s1 \in Slots(game_session[sid]) : PlayerAt(game_session[sid], s1) # Empty
        /\ \E s1 \in Slots(game_session[sid]) : PlayerAt(game_session[sid], s1) = Empty

\* Both players hold a slot of the teams named and the victim has no spawns
\* left.
VictimHasNoSpawns(gs, killer_team, killer, victim_team, victim) ==
    /\ position(get_team(gs, killer_team).players, killer) # 0
    /\ position(get_team(gs, victim_team).players, victim) # 0
    /\ get_team(gs, victim_team).player_spawns[
           position(get_team(gs, victim_team).players, victim)] = 0

\* No spawn counter of any session is below zero.
SpawnsNeverNegative ==
    \A sid \in SessionIds :
        Exists(sid) =>
            \A s \in Slots(game_session[sid]) :
                get_team(game_session[sid], s[1]).player_spawns[s[2]] >= 0

\* C5: a RecordKill against a victim whose spawn counter is 0 always fails
\* with PlayerHasNoSpawns, and no reachable state has a spawn counter below
\* zero.
C5_KillAtZeroSpawnsFailsPlayerHasNoSpawns ==
    [][ /\ SpawnsNeverNegative'
        /\ last'.op = "RecordKill"
           => \A sid \in SessionIds, kt \in {0, 1}, k \in Players, vt \in {0, 1}, v \in Players :
                ( /\ Exists(sid)
                  /\ game_session[sid].status = "InProgress"
                  /\ VictimHasNoSpawns(game_session[sid], kt, k, vt, v)
                  /\ RecordKill(sid, game_session[sid].authority, kt, k, vt, v) )
                => last'.err = "PlayerHasNoSpawns"
      ]_vars

\* A kill on a victim without spawns was rejected while the killer's counter
\* is at its maximum.
C5_Witness ==
    /\ last.op = "RecordKill"
    /\ last.err = "KillCountOverflow"
    /\ \E sid \in SessionIds, kt \in {0, 1}, k \in Players, vt \in {0, 1}, v \in Players :
        /\ Exists(sid)
        /\ VictimHasNoSpawns(game_session[sid], kt, k, vt, v)
        /\ get_team(game_session[sid], kt).player_kills[
               position(get_team(game_session[sid], kt).players, k)] = KillCounterMax

\* The place of a status in WaitingForPlayers -> InProgress -> Completed ->
\* Distributed.
Rank(status) ==
    CASE status = "WaitingForPlayers" -> 1
      [] status = "InProgress" -> 2
      [] status = "Completed" -> 3
      [] status = "Distributed" -> 4

\* C6: the status of a session never regresses: a step leaves it as it is or
\* moves it to the next state of WaitingForPlayers -> InProgress -> Completed
\* -> Distributed.
C6_StatusNeverRegresses ==
    [][ \A sid \in SessionIds :
            Exists(sid) =>
                /\ game_session'[sid] # NoSession
                /\ Rank(game_session'[sid].status) - Rank(game_session[sid].status)
                      \in {0, 1}
      ]_vars

\* A session went through all four states.
C6_Witness ==
    /\ last.op \in {"DistributeWinnerTakesAll", "DistributePaySpawnEarnings"}
    /\ last.err = "Ok"
    /\ \E sid \in SessionIds :
        Exists(sid) /\ game_session[sid].status = "Distributed"

\* Some slot of either team is empty.
SomeSlotEmpty(gs) == \E s \in Slots(gs) : PlayerAt(gs, s) = Empty

\* C7: the status is WaitingForPlayers exactly while some slot of either team
\* is empty; the JoinTeam that fills the last empty slot sets the status to
\* InProgress in that step, and a JoinTeam that leaves a slot empty does not
\* change the status.
C7_WaitingExactlyWhileASlotIsEmpty ==
    /\ [](\A sid \in SessionIds :
            Exists(sid) =>
                (game_session[sid].status = "WaitingForPlayers"
                    <=> SomeSlotEmpty(game_session[sid])))
    /\ [][ (last'.op = "JoinTeam" /\ last'.err = "Ok")
           => \A sid \in SessionIds :
                (Exists(sid) /\ game_session'[sid] # game_session[sid])
                => game_session'[sid].status =
                      IF SomeSlotEmpty(game_session'[sid])
                      THEN game_session[sid].status
                      ELSE "InProgress"
       ]_vars

\* A join filled the last empty slot.
C7_Witness ==
    /\ last.op = "JoinTeam"
    /\ last.err = "Ok"
    /\ \E sid \in SessionIds :
        /\ Exists(sid)
        /\ ~SomeSlotEmpty(game_session[sid])
        /\ game_session[sid].status = "InProgress"

\* The player holds no slot of the session.
NotJoined(gs, user) ==
    ~contains(gs.team_a.players, user) /\ ~contains(gs.team_b.players, user)

\* The team has exactly one empty slot.
OneSlotLeft(gs, team) ==
    Cardinality({s \in Slots(gs) : s[1] = team /\ PlayerAt(gs, s) = Empty}) = 1

\* Two distinct players who hold no slot and can pay the stake both ask for
\* the single remaining slot of a team of a joinable session.
RaceFor(sid, team, first, second) ==
    /\ Exists(sid)
    /\ first # second
    /\ game_session[sid].status = "WaitingForPlayers"
    /\ ~is_expired(game_session[sid], clock)
    /\ OneSlotLeft(game_session[sid], team)
    /\ NotJoined(game_session[sid], first)
    /\ NotJoined(game_session[sid], second)
    /\ balance_of[first] >= game_session[sid].session_bet
    /\ balance_of[second] >= game_session[sid].session_bet

\* The outcome of the request processed first.
FirstJoin(sid, team, first) ==
    join_user(game_session[sid], balance_of, sid, first,
              game_session[sid].authority, team, clock)

\* The outcome of the request processed second.
SecondJoin(sid, team, first, second) ==
    join_user(FirstJoin(sid, team, first).gs, FirstJoin(sid, team, first).ledger,
              sid, second, game_session[sid].authority, team, clock)

\* C8 as stated: of two concurrent JoinTeam requests by distinct players for
\* the single remaining slot of a team, in either order the first succeeds
\* and occupies the slot and the second fails with TeamIsFull.
C8_LoserFailsTeamIsFull ==
    \A sid \in SessionIds, team \in {0, 1}, first \in Players, second \in Players :
        RaceFor(sid, team, first, second) =>
            /\ FirstJoin(sid, team, first).err = "Ok"
            /\ contains(get_team(FirstJoin(sid, team, first).gs, team).players, first)
            /\ SecondJoin(sid, team, first, second).err = "TeamIsFull"

\* C8: of two concurrent JoinTeam requests by distinct players for the single
\* remaining slot of a team, in either order the first succeeds and occupies
\* the slot and the second fails: with TeamIsFull while the other team still
\* has an empty slot, with GameNotJoinable when the slot was the last empty
\* slot of the session.
C8_ExactlyOneJoinWins ==
    \A sid \in SessionIds, team \in {0, 1}, first \in Players, second \in Players :
        RaceFor(sid, team, first, second) =>
            /\ FirstJoin(sid, team, first).err = "Ok"
            /\ contains(get_team(FirstJoin(sid, team, first).gs, team).players, first)
            /\ ~contains(get_team(SecondJoin(sid, team, first, second).gs, team).players,
                         second)
            /\ SecondJoin(sid, team, first, second).err =
                  IF SomeSlotEmpty(FirstJoin(sid, team, first).gs)
                  THEN "TeamIsFull"
                  ELSE "GameNotJoinable"

\* The loser of a race for the last empty slot of a session was turned away:
\* every slot is taken and a funded player holds none.
C8_Witness ==
    /\ last.op = "JoinTeam"
    /\ last.err = "GameNotJoinable"
    /\ \E sid \in SessionIds, loser \in Players :
        /\ Exists(sid)
        /\ ~SomeSlotEmpty(game_session[sid])
        /\ NotJoined(game_session[sid], loser)
        /\ balance_of[loser] >= game_session[sid].session_bet

\* A JoinTeam request that passes every check before the stake debit: signed
\* for the authority, the session joinable and not expired, the team valid
\* and with an empty slot, the player in no slot.
JoinReachesDebit(sid, user, team) ==
    /\ Exists(sid)
    /\ game_session[sid].status = "WaitingForPlayers"
    /\ ~is_expired(game_session[sid], clock)
    /\ get_empty_slot(get_team(game_session[sid], team),
                      players_per_team(game_session[sid].game_mode)) # 0
    /\ NotJoined(game_session[sid], user)

\* C9: JoinTeam is all-or-nothing.  When the stake debit fails the call fails
\* with InsufficientUserBalance and the slot, the status, the vault balance
\* and the player's balance are unchanged, so that a later JoinTeam by a
\* funded player for that slot succeeds; when the call succeeds the player's
\* balance is lower by exactly the bet amount, the vault higher by exactly
\* the bet amount and the slot is occupied by the player.
C9_JoinAllOrNothing ==
    [][ last'.op = "JoinTeam"
        => \A sid \in SessionIds, user \in Players, srv \in Servers, team \in {0, 1} :
             /\ ( /\ Authorized(sid, srv)
                  /\ JoinReachesDebit(sid, user, team)
                  /\ balance_of[user] < game_session[sid].session_bet
                  /\ JoinTeam(sid, user, srv, team) )
                => ( /\ last'.err = "InsufficientUserBalance"
                     /\ NothingChanged
                     /\ \A other \in Players :
                          ( /\ JoinReachesDebit(sid, other, team)
                            /\ balance_of[other] >= game_session[sid].session_bet )
                          => join_user(game_session'[sid], balance_of', sid, other,
                                       srv, team, clock').err = "Ok" )
             /\ ( /\ Authorized(sid, srv)
                  /\ JoinReachesDebit(sid, user, team)
                  /\ balance_of[user] >= game_session[sid].session_bet
                  /\ JoinTeam(sid, user, srv, team) )
                => last'.err = "Ok"
             /\ ( /\ Exists(sid)
                  /\ JoinTeam(sid, user, srv, team)
                  /\ last'.err = "Ok" )
                => ( /\ balance_of'[user] = balance_of[user] - game_session[sid].session_bet
                     /\ balance_of'[sid] = balance_of[sid] + game_session[sid].session_bet
                     /\ \A a \in Accounts \ {user, sid} : balance_of'[a] = balance_of[a]
                     /\ get_team(game_session'[sid], team).players[
                            get_empty_slot(get_team(game_session[sid], team),
                                           players_per_team(game_session[sid].game_mode))]
                          = user )
      ]_vars

\* A join failed at the stake debit and left the slot empty, and a player who
\* can pay the stake holds no slot.
C9_Witness ==
    /\ last.op = "JoinTeam"
    /\ last.err = "InsufficientUserBalance"
    /\ \E sid \in SessionIds, poor \in Players, funded \in Players, team \in {0, 1} :
        /\ JoinReachesDebit(sid, poor, team)
        /\ balance_of[poor] < game_session[sid].session_bet
        /\ JoinReachesDebit(sid, funded, team)
        /\ balance_of[funded] >= game_session[sid].session_bet

\* The step paid every recipient of the plan its planned amount once, out of
\* the vault, and set the status to Distributed.
PaidOnce(sid, plan) ==
    /\ last'.err = "Ok"
    /\ game_session'[sid].status = "Distributed"
    /\ \A p \in Players : balance_of'[p] = balance_of[p] + PlannedFor(plan, p)
    /\ balance_of'[sid] = balance_of[sid] - SumAmounts(plan)

\* A settlement call on a completed session whose vault covers the plan and
\* whose recipients can all be credited.
Payable(sid, plan, rejecting) ==
    /\ game_session[sid].status = "Completed"
    /\ plan.err = "Ok"
    /\ SumAmounts(plan.plan) <= balance_of[sid]
    /\ Recipients(plan.plan) \cap rejecting = {}

C12_WinnersReceiveTwiceTheBet ==
    [][ (last'.op = "DistributeWinnerTakesAll" /\ last'.err = "Ok")
        => \A sid \in SessionIds, srv \in Servers, rej \in Rejecting, team \in {0, 1} :
             ( Exists(sid) /\ DistributeWinnerTakesAll(sid, srv, team, rej) )
             => /\ \A p \in Players :
                     balance_of'[p] - balance_of[p] =
                        IF contains(get_team(game_session[sid], team).players, p)
                        THEN 2 * game_session[sid].session_bet
                        ELSE 0
                /\ game_session'[sid].status = "Distributed"
                /\ ( /\ game_session[sid].game_mode.kind = "WinnerTakesAll"
                     /\ ~SomeSlotEmpty(game_session[sid]) )
                   => balance_of'[sid] = 0
      ]_vars

\* The winner of a fully joined WinnerTakesAll session was paid.
C12_Witness ==
    /\ last.op = "DistributeWinnerTakesAll"
    /\ last.err = "Ok"
    /\ \E sid \in SessionIds :
        /\ Exists(sid)
        /\ game_session[sid].game_mode.kind = "WinnerTakesAll"
        /\ game_session[sid].status = "Distributed"
        /\ distributed[sid] = 2 * game_session[sid].session_bet
        /\ balance_of[sid] = 0

\* kills + spawns of the slot a player holds, 0 for a player in no slot.
KillsAndSpawns(gs, p) ==
    IF contains(gs.team_a.players, p)
    THEN gs.team_a.player_kills[position(gs.team_a.players, p)]
         + gs.team_a.player_spawns[position(gs.team_a.players, p)]
    ELSE IF contains(gs.team_b.players, p)
    THEN gs.team_b.player_kills[position(gs.team_b.players, p)]
         + gs.team_b.player_spawns[position(gs.team_b.players, p)]
    ELSE 0

\* The product of some player's kills + spawns and the bet does not fit the
\* amount width.
EarningsOverflow(gs) ==
    \E p \in Players : KillsAndSpawns(gs, p) * gs.session_bet > AmountMax

\* C13: a successful DistributePaySpawnEarnings pays every occupied slot of
\* both teams floor((kills + spawns) x bet / 10), which is nothing for a slot
\* with kills + spawns = 0, and when a multiplication overflows the amount
\* width the call fails with ArithmeticError and pays nobody.
C13_EarningsPerKillAndSpawn ==
    [][ last'.op = "DistributePaySpawnEarnings"
        => \A sid \in SessionIds, srv \in Servers, rej \in Rejecting :
             ( Authorized(sid, srv) /\ DistributePaySpawnEarnings(sid, srv, rej) )
             => /\ last'.err = "Ok"
                   => \A p \in Players :
                        balance_of'[p] - balance_of[p] =
                           (KillsAndSpawns(game_session[sid], p)
                              * game_session[sid].session_bet) \div 10
                /\ ( /\ game_session[sid].status = "Completed"
                     /\ game_session[sid].game_mode.kind = "PayToSpawn"
                     /\ EarningsOverflow(game_session[sid]) )
                   => (last'.err = "ArithmeticError" /\ NothingChanged)
      ]_vars

\* Earnings were paid to a player with kills and spawns and none to a player
\* without.
C13_Witness ==
    /\ last.op = "DistributePaySpawnEarnings"
    /\ last.err = "Ok"
    /\ \E sid \in SessionIds, p \in Players, q \in Players :
        /\ Exists(sid)
        /\ game_session[sid].status = "Distributed"
        /\ KillsAndSpawns(game_session[sid], p) > 0
        /\ contains(game_session[sid].team_a.players, p)
        /\ game_session[sid].team_a.player_kills[1] > 0
        /\ contains(game_session[sid].team_b.players, q)
        /\ KillsAndSpawns(game_session[sid], q) = 0

\* A distribution was refused because a multiplication overflows.
C13_OverflowReached ==
    /\ last.op = "DistributePaySpawnEarnings"
    /\ last.err = "ArithmeticError"

\* The players who hold a slot of the team.
PlayersOf(gs, team) ==
    {get_team(gs, team).players[i] : i \in 1..players_per_team(gs.game_mode)} \ {Empty}

\* The killer's counter is below its maximum.
KillerBelowMax(gs, killer_team, killer) ==
    get_team(gs, killer_team).player_kills[
        position(get_team(gs, killer_team).players, killer)] < KillCounterMax

\* C14: a RecordKill that fails with PlayerHasNoSpawns leaves the whole
\* session unchanged, the killer's kill counter included; that is the outcome
\* of a kill on a victim without spawns by a killer whose counter is below
\* its maximum.
C14_RejectedKillChangesNothing ==
    [][ last'.op = "RecordKill"
        => /\ last'.err = "PlayerHasNoSpawns" => NothingChanged
           /\ \A sid \in SessionIds :
                (Exists(sid) /\ game_session[sid].status = "InProgress")
                => \A kt \in {0, 1}, vt \in {0, 1} :
                     \A k \in PlayersOf(game_session[sid], kt),
                        v \in PlayersOf(game_session[sid], vt) :
                          ( /\ VictimHasNoSpawns(game_session[sid], kt, k, vt, v)
                            /\ KillerBelowMax(game_session[sid], kt, k)
                            /\ RecordKill(sid, game_session[sid].authority, kt, k, vt, v) )
                          => (last'.err = "PlayerHasNoSpawns" /\ NothingChanged)
      ]_vars

\* The eleventh kill on a player who started with ten spawns was rejected:
\* the killer's counter is at ten and the victim's spawns at zero.
C14_Witness ==
    /\ last.op = "RecordKill"
    /\ last.err = "PlayerHasNoSpawns"
    /\ \E sid \in SessionIds, kt \in {0, 1}, k \in Players, vt \in {0, 1}, v \in Players :
        /\ Exists(sid)
        /\ game_session[sid].game_mode.kind = "PayToSpawn"
        /\ VictimHasNoSpawns(game_session[sid], kt, k, vt, v)
        /\ get_team(game_session[sid], kt).player_kills[
               position(get_team(game_session[sid], kt).players, k)] = DEFAULT_SPAWN_COUNT

\* C15 as stated: JoinTeam by a player who holds a slot of the session fails
\* with PlayerAlreadyJoined whichever team is targeted, and nothing changes.
C15_RejoinFailsPlayerAlreadyJoined ==
    [][ last'.op = "JoinTeam"
        => \A sid \in SessionIds :
             Exists(sid)
             => \A team \in {0, 1}, user \in Players :
                  ( /\ ~NotJoined(game_session[sid], user)
                    /\ JoinTeam(sid, user, game_session[sid].authority, team) )
                  => (last'.err = "PlayerAlreadyJoined" /\ NothingChanged)
      ]_vars

\* C15: JoinTeam by a player who holds a slot of a session that is
\* WaitingForPlayers fails with PlayerAlreadyJoined whichever team is
\* targeted and whether or not that team has an empty slot; once the session
\* has left WaitingForPlayers the call fails with GameNotJoinable; in both
\* cases no stake is debited and no slot changes.
C15_RejoinIsRejected ==
    [][ last'.op = "JoinTeam"
        => \A sid \in SessionIds :
             Exists(sid)
             => \A team \in {0, 1}, user \in Players :
                  ( /\ ~NotJoined(game_session[sid], user)
                    /\ JoinTeam(sid, user, game_session[sid].authority, team) )
                  => /\ NothingChanged
                     /\ last'.err =
                          IF game_session[sid].status = "WaitingForPlayers"
                          THEN "PlayerAlreadyJoined"
                          ELSE "GameNotJoinable"
      ]_vars

\* A player who holds a slot and could pay another stake asked for a slot
\* again and was refused while the other team was empty.
C15_Witness ==
    /\ last.op = "JoinTeam"
    /\ last.err = "PlayerAlreadyJoined"
    /\ \E sid \in SessionIds, user \in Players :
        /\ Exists(sid)
        /\ ~NotJoined(game_session[sid], user)
        /\ balance_of[user] >= game_session[sid].session_bet
        /\ SomeSlotEmpty(game_session[sid])
        /\ balance_of[sid] = game_session[sid].session_bet

\* The spawn counter of the slot the player holds in the team.
SpawnsOf(gs, team, user) ==
    get_team(gs, team).player_spawns[position(get_team(gs, team).players, user)]

\* A PurchaseSpawns request of a player of the team on a PayToSpawn session
\* that is InProgress and not expired.
PurchaseInPlay(sid, user, team) ==
    /\ Exists(sid)
    /\ game_session[sid].status = "InProgress"
    /\ game_session[sid].game_mode.kind = "PayToSpawn"
    /\ ~is_expired(game_session[sid], clock)
    /\ contains(get_team(game_session[sid], team).players, user)

\* C16: PurchaseSpawns on an InProgress PayToSpawn session with a game server
\* that is not the session's authority fails with UnauthorizedPayToSpawn and
\* changes neither a spawn counter nor a balance; with the authority the
\* same call, by a player who can pay and is below the cap, succeeds.
C16_PurchaseNeedsTheAuthority ==
    [][ last'.op = "PurchaseSpawns"
        => \A sid \in SessionIds, user \in Players, srv \in Servers, team \in {0, 1} :
             ( PurchaseInPlay(sid, user, team) /\ PurchaseSpawns(sid, user, srv, team) )
             => /\ srv # game_session[sid].authority
                   => (last'.err = "UnauthorizedPayToSpawn" /\ NothingChanged)
                /\ ( /\ srv = game_session[sid].authority
                     /\ balance_of[user] >= game_session[sid].session_bet
                     /\ SpawnsOf(game_session[sid], team, user)
                          + game_session[sid].spawns_per_purchase <= MAX_SPAWNS_PER_PLAYER )
                   => ( /\ last'.err = "Ok"
                        /\ SpawnsOf(game_session'[sid], team, user) =
                              SpawnsOf(game_session[sid], team, user)
                                + game_session[sid].spawns_per_purchase )
      ]_vars

\* A purchase a funded player could make was refused for its game server.
C16_Witness ==
    /\ last.op = "PurchaseSpawns"
    /\ last.err = "UnauthorizedPayToSpawn"
    /\ \E sid \in SessionIds, user \in Players, team \in {0, 1} :
        /\ PurchaseInPlay(sid, user, team)
        /\ balance_of[user] >= game_session[sid].session_bet
        /\ SpawnsOf(game_session[sid], team, user)
              + game_session[sid].spawns_per_purchase <= MAX_SPAWNS_PER_PLAYER

\* The signers that are not the authority of the session.
Strangers(sid) == Servers \ {game_session[sid].authority}

\* The step failed and changed neither the session nor a balance.
Rejected == last'.err # "Ok" /\ NothingChanged

WrongStatusFailsWith(join_err, dist_err) ==
    \A sid \in SessionIds :
        Exists(sid) =>
            LET gs == game_session[sid]
                authority == game_session[sid].authority
            IN  /\ gs.status # "WaitingForPlayers"
                   => \A user \in Players, team \in TeamIndexes :
                        join_user(gs, balance_of, sid, user, authority, team, clock).err
                            = join_err
                /\ gs.status # "InProgress"
                   => /\ \A kt \in {0, 1}, vt \in {0, 1}, k \in Players, v \in Players :
                            record_kill(gs, balance_of, authority, kt, k, vt, v).err
                                = "InvalidGameState"
                      /\ \A user \in Players, team \in TeamIndexes :
                            pay_to_spawn(gs, balance_of, sid, user, authority, team, clock).err
                                = "InvalidGameState"
                      /\ mark_completed(gs, balance_of, authority).err = "InvalidGameState"
                /\ gs.status # "Completed"
                   => \A rej \in Rejecting :
                        /\ \A team \in {0, 1} :
                              distribute_all_winnings_handler(gs, balance_of, sid, authority,
                                                              team, rej).err = dist_err
                        /\ distribute_pay_spawn_earnings(gs, balance_of, sid, authority,
                                                         rej).err = dist_err

BetClass(bet_amount) ==
    IF bet_amount = 0 THEN "InvalidBetAmount"
    ELSE IF bet_amount \in 1..(MIN_BET_AMOUNT - 1) THEN "BetAmountTooLow"
    ELSE IF bet_amount \in MIN_BET_AMOUNT..MaxBetAmount THEN "Ok"
    ELSE "BetAmountTooHigh"

\* C19: CreateSession fails with InvalidBetAmount for a bet amount of 0, with
\* BetAmountTooLow for 1 to MIN_BET_AMOUNT - 1 and with BetAmountTooHigh
\* above MAX_BET_AMOUNT, creating no session; every amount from
\* MIN_BET_AMOUNT to MAX_BET_AMOUNT inclusive is accepted and stored as the
\* session bet.
C19_BetAmountClasses ==
    [][ last'.op = "CreateSession"
        => \A sid \in SessionIds, c \in SessionConfigs :
             ( /\ ~Exists(sid)
               /\ CreateSession(sid, "gameServer", c.bet_amount, c.game_mode,
                                c.spawns_per_purchase) )
             => /\ last'.err = BetClass(c.bet_amount)
                /\ IF BetClass(c.bet_amount) = "Ok"
                   THEN /\ game_session'[sid] # NoSession
                        /\ game_session'[sid].session_bet = c.bet_amount
                   ELSE game_session'[sid] = NoSession /\ NothingChanged
      ]_vars

\* A session with the largest stake accepted was created.
C19_Witness ==
    /\ last.op = "CreateSession"
    /\ last.err = "Ok"
    /\ \E sid \in SessionIds :
        /\ Exists(sid)
        /\ game_session[sid].session_bet = MaxBetAmount

\* A bet amount outside the accepted range was refused.
C19_RefusalsReached ==
    /\ last.op = "CreateSession"
    /\ last.err \in {"InvalidBetAmount", "BetAmountTooLow", "BetAmountTooHigh"}

\* C20: in every reachable state every spawn counter is at most the
\* per-player cap, and a PurchaseSpawns whose increment would take the
\* counter above the cap fails with MaxSpawnsExceeded, debits nothing and
\* leaves the counter unchanged.
C20_SpawnCap ==
    /\ [](\A sid \in SessionIds :
            Exists(sid) =>
                \A s \in Slots(game_session[sid]) :
                    get_team(game_session[sid], s[1]).player_spawns[s[2]]
                        <= MAX_SPAWNS_PER_PLAYER)
    /\ [][ last'.op = "PurchaseSpawns"
           => \A sid \in SessionIds, user \in Players, team \in {0, 1} :
                ( /\ PurchaseInPlay(sid, user, team)
                  /\ SpawnsOf(game_session[sid], team, user)
                        + game_session[sid].spawns_per_purchase > MAX_SPAWNS_PER_PLAYER
                  /\ PurchaseSpawns(sid, user, game_session[sid].authority, team) )
                => (last'.err = "MaxSpawnsExceeded" /\ NothingChanged)
       ]_vars

\* A purchase a funded player asked for was refused because it would pass
\* the cap.
C20_Witness ==
    /\ last.op = "PurchaseSpawns"
    /\ last.err = "MaxSpawnsExceeded"
    /\ \E sid \in SessionIds, user \in Players, team \in {0, 1} :
        /\ PurchaseInPlay(sid, user, team)
        /\ balance_of[user] >= game_session[sid].session_bet
        /\ SpawnsOf(game_session[sid], team, user)
              + game_session[sid].spawns_per_purchase > MAX_SPAWNS_PER_PLAYER

\* The kill counter of every slot of a session.
KillsOf(gs) == [s \in Slots(gs) |-> get_team(gs, s[1]).player_kills[s[2]]]

\* C21: a RecordKill for a killer whose kill counter is at the counter's
\* maximum fails with KillCountOverflow and leaves the killer's counter and
\* the victim's spawns as they were, and no kill counter ever decreases.
C21_KillCounterNeverWraps ==
    /\ [](\A sid \in SessionIds :
            (Exists(sid) /\ game_session[sid].status = "InProgress")
            => \A kt \in {0, 1}, vt \in {0, 1} :
                 \A k \in PlayersOf(game_session[sid], kt),
                    v \in PlayersOf(game_session[sid], vt) :
                      ~KillerBelowMax(game_session[sid], kt, k)
                      => record_kill(game_session[sid], balance_of,
                                     game_session[sid].authority, kt, k, vt, v).err
                            = "KillCountOverflow")
    /\ [][ /\ last'.err = "KillCountOverflow" => NothingChanged
           /\ \/ game_session' = game_session
              \/ \A sid \in SessionIds :
                    Exists(sid)
                    => \A s \in Slots(game_session[sid]) :
                         KillsOf(game_session'[sid])[s] >= KillsOf(game_session[sid])[s]
       ]_vars

\* A kill by a killer whose counter is at its maximum, on a victim who still
\* has spawns, was refused with KillCountOverflow.
C21_Witness ==
    /\ last.op = "RecordKill"
    /\ last.err = "KillCountOverflow"
    /\ \E sid \in SessionIds, kt \in {0, 1}, vt \in {0, 1} :
        /\ Exists(sid)
        /\ game_session[sid].status = "InProgress"
        /\ \E k \in PlayersOf(game_session[sid], kt), v \in PlayersOf(game_session[sid], vt) :
            /\ k # v
            /\ ~KillerBelowMax(game_session[sid], kt, k)
            /\ ~VictimHasNoSpawns(game_session[sid], kt, k, vt, v)

\* The team has no empty slot.
TeamFull(gs, team) == get_empty_slot(get_team(gs, team), players_per_team(gs.game_mode)) = 0

\* What JoinTeam answers, in every reachable state, to each player without a
\* slot who asks the authority for a team without an empty slot: full_err
\* when the other team is full as well, TeamIsFull otherwise.
FullTeamRefusesWith(full_err) ==
    \A sid \in SessionIds :
        Exists(sid)
        => \A team \in {0, 1} :
             TeamFull(game_session[sid], team)
             => \A user \in Players :
                  NotJoined(game_session[sid], user)
                  => join_user(game_session[sid], balance_of, sid, user,
                               game_session[sid].authority, team, clock).err
                        = IF TeamFull(game_session[sid], 1 - team)
                          THEN full_err ELSE "TeamIsFull"

\* C22 as stated: JoinTeam for a team without an empty slot fails with
\* TeamIsFull whatever the state of the other team.
C22_FullTeamFailsTeamIsFull == FullTeamRefusesWith("TeamIsFull")

\* C22: a team never holds more than players_per_team players.  JoinTeam for
\* a team without an empty slot fails with TeamIsFull while the other team
\* still has an empty slot, and with GameNotJoinable once the other team is
\* full as well; either way no player is debited and no slot changes.
C22_FullTeamIsClosed ==
    /\ [](/\ FullTeamRefusesWith("GameNotJoinable")
          /\ \A sid \in SessionIds :
               Exists(sid)
               => \A team \in {0, 1} :
                    Cardinality(PlayersOf(game_session[sid], team))
                        <= players_per_team(game_session[sid].game_mode))
    /\ [][ last'.op = "JoinTeam"
           => /\ last'.err \in {"TeamIsFull", "GameNotJoinable"} => NothingChanged
              /\ \A sid \in SessionIds :
                   Exists(sid)
                   => \A s \in Slots(game_session[sid]) :
                        \/ PlayerAt(game_session[sid], s) = Empty
                        \/ PlayerAt(game_session'[sid], s) = PlayerAt(game_session[sid], s)
       ]_vars

\* A player who could pay the stake was refused a slot of a full team while
\* the other team was still empty.
C22_Witness ==
    /\ last.op = "JoinTeam"
    /\ last.err = "TeamIsFull"
    /\ \E sid \in SessionIds, team \in {0, 1}, user \in Players :
        /\ Exists(sid)
        /\ TeamFull(game_session[sid], team)
        /\ ~TeamFull(game_session[sid], 1 - team)
        /\ NotJoined(game_session[sid], user)
        /\ balance_of[user] >= game_session[sid].session_bet

\* C23: CreateSession with an identifier already in use fails and leaves the
\* existing session and every balance unchanged, so of two creations with the
\* same identifier exactly one succeeds; a creation with an accepted bet
\* under an identifier not in use succeeds whatever sessions exist under
\* other identifiers, yields a session in WaitingForPlayers and leaves the
\* other sessions as they were.
C23_SessionIdentifiersAreUnique ==
    [][ last'.op = "CreateSession"
        => \A sid \in AllSessionIds, c \in SessionConfigs :
             CreateSession(sid, "gameServer", c.bet_amount, c.game_mode, c.spawns_per_purchase)
             => /\ Exists(sid) => (last'.err # "Ok" /\ NothingChanged)
                /\ (~Exists(sid) /\ BetClass(c.bet_amount) = "Ok")
                   => /\ last'.err = "Ok"
                      /\ game_session'[sid] # NoSession
                      /\ game_session'[sid].status = "WaitingForPlayers"
                      /\ game_session'[sid].session_bet = c.bet_amount
                      /\ game_session'[sid].game_mode = c.game_mode
                      /\ \A other \in AllSessionIds \ {sid} :
                           game_session'[other] = game_session[other]
                      /\ balance_of' = balance_of
      ]_vars

\* Two sessions exist under distinct identifiers, one of them with a player,
\* and a further creation under one of the identifiers was refused.
C23_Witness ==
    /\ last.op = "CreateSession"
    /\ last.err = "AccountAlreadyInUse"
    /\ \A sid \in AllSessionIds : Exists(sid)
    /\ \E sid \in AllSessionIds, user \in Players : ~NotJoined(game_session[sid], user)

\* The spawn counter of every slot of a session.
SpawnCounters(gs) == [s \in Slots(gs) |-> get_team(gs, s[1]).player_spawns[s[2]]]

\* C24: a PurchaseSpawns signed by the authority on an InProgress session of
\* a WinnerTakesAll mode fails with InvalidGameMode, for every player and
\* team index, and changes nothing; no spawn counter of a WinnerTakesAll
\* session ever increases.
C24_NoSpawnsForSaleInWinnerTakesAll ==
    /\ [](\A sid \in SessionIds :
            ( /\ Exists(sid)
              /\ game_session[sid].status = "InProgress"
              /\ game_session[sid].game_mode.kind = "WinnerTakesAll" )
            => \A user \in Players, team \in TeamIndexes :
                 pay_to_spawn(game_session[sid], balance_of, sid, user,
                              game_session[sid].authority, team, clock).err
                    = "InvalidGameMode")
    /\ [][ /\ last'.err = "InvalidGameMode" => NothingChanged
           /\ \/ game_session' = game_session
              \/ \A sid \in SessionIds :
                    (Exists(sid) /\ game_session[sid].game_mode.kind = "WinnerTakesAll")
                    => \A s \in Slots(game_session[sid]) :
                         SpawnCounters(game_session'[sid])[s]
                            <= SpawnCounters(game_session[sid])[s]
       ]_vars

\* A player of an InProgress WinnerTakesAll session who could pay for spawns
\* was refused with InvalidGameMode.
C24_Witness ==
    /\ last.op = "PurchaseSpawns"
    /\ last.err = "InvalidGameMode"
    /\ \E sid \in SessionIds, user \in Players :
        /\ Exists(sid)
        /\ game_session[sid].status = "InProgress"
        /\ game_session[sid].game_mode.kind = "WinnerTakesAll"
        /\ ~NotJoined(game_session[sid], user)
        /\ balance_of[user] >= game_session[sid].session_bet

\* The joins that succeed when the session's authority is named.
JoinableBy(sid) ==
    IF ~Exists(sid) THEN {}
    ELSE { j \in Players \X {0, 1} :
             join_user(game_session[sid], balance_of, sid, j[1],
                       game_session[sid].authority, j[2], clock).err = "Ok" }

\* C25: a JoinTeam that names a game server other than the session's
\* authority fails with UnauthorizedGameServer, claims no slot and debits no
\* stake, and a join that would have succeeded with the session's authority
\* still succeeds with it afterwards.
C25_JoinNeedsTheAuthority ==
    /\ [](\A sid \in SessionIds :
            Exists(sid)
            => \A user \in Players, team \in TeamIndexes, srv \in Strangers(sid) :
                 join_user(game_session[sid], balance_of, sid, user, srv, team, clock).err
                    = "UnauthorizedGameServer")
    /\ [][ (last'.op = "JoinTeam" /\ last'.err = "UnauthorizedGameServer")
           => /\ NothingChanged
              /\ \A sid \in SessionIds :
                   \A j \in JoinableBy(sid) :
                      join_user(game_session'[sid], balance_of', sid, j[1],
                                game_session'[sid].authority, j[2], clock').err = "Ok"
       ]_vars

\* A join naming another game server was refused in a state in which the
\* same join succeeds with the session's authority.
C25_Witness ==
    /\ last.op = "JoinTeam"
    /\ last.err = "UnauthorizedGameServer"
    /\ \E sid \in SessionIds : JoinableBy(sid) # {}

\* The status in which a successful DistributePaySpawnEarnings leaves the
\* session it settled.
StatusAfterEarnings(status) ==
    (last'.op = "DistributePaySpawnEarnings" /\ last'.err = "Ok")
    => \A sid \in SessionIds, srv \in Servers, rej \in Rejecting :
         (Exists(sid) /\ DistributePaySpawnEarnings(sid, srv, rej))
         => game_session'[sid].status = status

PaidBy(before, after) == {p \in Players : after[p] > before[p]}

\* What a distribution handler returns is a session still Completed with
\* nobody paid, or a session Distributed with every recipient of the plan
\* paid its amount.
WholeOrNothing(r, plan) ==
    IF r.gs.status = "Completed"
    THEN r.err # "Ok" /\ PaidBy(balance_of, r.ledger) = {} /\ r.ledger = balance_of
    ELSE /\ r.err = "Ok"
         /\ r.gs.status = "Distributed"
         /\ \A p \in Players : r.ledger[p] - balance_of[p] = PlannedFor(plan, p)

\* C27: no partial payout is observable.  Whatever transfer of a batch
\* fails, a distribution on a Completed session hands back either the
\* session still Completed with no recipient paid or the session Distributed
\* with every recipient paid, and no step that leaves a session Completed
\* raises the balance of any player.
C27_NoPartialPayout ==
    /\ [](\A sid \in SessionIds :
            (Exists(sid) /\ game_session[sid].status = "Completed")
            => \A rej \in Rejecting :
                 /\ WholeOrNothing(
                        distribute_pay_spawn_earnings(game_session[sid], balance_of, sid,
                                                      game_session[sid].authority, rej),
                        pay_spawn_distributions(game_session[sid]).plan)
                 /\ \A team \in {0, 1} :
                      WholeOrNothing(
                          distribute_all_winnings_handler(game_session[sid], balance_of, sid,
                                                          game_session[sid].authority, team, rej),
                          winner_distributions(game_session[sid], team).plan))
    /\ [][ balance_of' = balance_of
           \/ \A sid \in SessionIds :
                (Exists(sid) /\ game_session'[sid].status = "Completed")
                => PaidBy(balance_of, balance_of') = {}
       ]_vars

\* A batch failed at a transfer after an earlier transfer of the same batch
\* had gone through, and the session is still Completed.
C27_Witness ==
    /\ last.op = "DistributePaySpawnEarnings"
    /\ last.err = "TransferFailed"
    /\ \E sid \in SessionIds, rej \in Rejecting :
        /\ Exists(sid)
        /\ game_session[sid].status = "Completed"
        /\ pay_spawn_distributions(game_session[sid]).err = "Ok"
        /\ LET done == transfer_loop(balance_of, sid,
                                     pay_spawn_distributions(game_session[sid]).plan, 1, rej)
           IN  ~done.ok /\ done.successful_transfers # <<>>

\* The distribution calls the authority can make: the kind, the winning team
\* of a winner-takes-all distribution, and the recipient accounts refused.
DistributionCalls ==
    [kind : {"DistributeWinnerTakesAll"}, team : {0, 1}, rej : Rejecting]
    \cup [kind : {"DistributePaySpawnEarnings"}, team : {0}, rej : Rejecting]

\* What a distribution call returns on a session and a ledger.
Distribute(call, gs, ledger, sid) ==
    IF call.kind = "DistributeWinnerTakesAll"
    THEN distribute_all_winnings_handler(gs, ledger, sid, gs.authority, call.team, call.rej)
    ELSE distribute_pay_spawn_earnings(gs, ledger, sid, gs.authority, call.rej)

\* The total of the batch a distribution call plans on a session.
BatchTotal(call, gs) ==
    IF call.kind = "DistributeWinnerTakesAll"
    THEN SumAmounts(winner_distributions(gs, call.team).plan)
    ELSE SumAmounts(pay_spawn_distributions(gs).plan)

\* The session and the ledger after an instruction that returned r: those r
\* carries when it succeeded, those before it otherwise.
Committed(r, gs, ledger) ==
    IF r.err = "Ok" THEN [gs |-> r.gs, ledger |-> r.ledger]
    ELSE [gs |-> gs, ledger |-> ledger]

\* C28: of two distribution calls on the same Completed session, of the same
\* kind or one of each, processed in either order, at most one succeeds; when
\* the first succeeds the second is rejected by the status check and
\* transfers nothing, and the vault is debited by the total of the
\* successful batch only.
C28_OneDistributionWins ==
    /\ [](\A sid \in SessionIds :
            (Exists(sid) /\ game_session[sid].status = "Completed")
            => \A first \in DistributionCalls, second \in DistributionCalls :
                 LET gs == game_session[sid]
                     r1 == Distribute(first, gs, balance_of, sid)
                     s1 == Committed(r1, gs, balance_of)
                     r2 == Distribute(second, s1.gs, s1.ledger, sid)
                     s2 == Committed(r2, s1.gs, s1.ledger)
                 IN  /\ ~(r1.err = "Ok" /\ r2.err = "Ok")
                     /\ r1.err = "Ok" => (r2.err = "GameNotComplete" /\ s2 = s1)
                     /\ balance_of[sid] - s2.ledger[sid] =
                           IF r1.err = "Ok" THEN BatchTotal(first, gs)
                           ELSE IF r2.err = "Ok" THEN BatchTotal(second, gs)
                           ELSE 0)
    /\ [][ last'.op \in {"DistributeWinnerTakesAll", "DistributePaySpawnEarnings"}
           => (last'.err # "Ok" => NothingChanged) ]_vars

\* A distribution of earnings lost against a winner-takes-all distribution on
\* the same pay-to-spawn session: the session is Distributed, and what was
\* paid out is the prize of twice the bet and not the earnings, which a
\* purchase of spawns had made larger.
C28_Witness ==
    /\ last.op = "DistributePaySpawnEarnings"
    /\ last.err = "GameNotComplete"
    /\ \E sid \in SessionIds :
        /\ Exists(sid)
        /\ game_session[sid].status = "Distributed"
        /\ game_session[sid].game_mode.kind = "PayToSpawn"
        /\ distributed[sid] = 2 * game_session[sid].session_bet
        /\ deposited[sid] > 2 * game_session[sid].session_bet

\* C29: the status check comes before every other precondition.  For
\* PurchaseSpawns on a WaitingForPlayers session the error is
\* InvalidGameState whoever the player is, whatever the team index and the
\* mode, and whichever game server is named.
C29_StatusCheckedFirst ==
    \A sid \in SessionIds :
        (Exists(sid) /\ game_session[sid].status = "WaitingForPlayers")
        => \A user \in Players, srv \in Servers, team \in TeamIndexes :
             pay_to_spawn(game_session[sid], balance_of, sid, user, srv, team, clock).err
                = "InvalidGameState"

\* With the session's authority named, the status check does come first.
C29_StatusCheckedFirstForTheAuthority ==
    \A sid \in SessionIds :
        (Exists(sid) /\ game_session[sid].status # "InProgress")
        => \A user \in Players, team \in TeamIndexes :
             pay_to_spawn(game_session[sid], balance_of, sid, user,
                          game_session[sid].authority, team, clock).err
                = "InvalidGameState"

\* The identity holds a slot of the team it is claimed to be in.
Resolves(gs, team, player) == team \in {0, 1} /\ player \in PlayersOf(gs, team)

\* C30: RecordKill fails and changes no counter when the killer or the
\* victim holds no slot of the team it is claimed to be in, or when a team
\* index is not 0 or 1; a successful RecordKill changes no counter but the
\* kill counter of the slot the killer holds and the spawn counter of the
\* slot the victim holds.
C30_KillsBookedOnResolvedSlotsOnly ==
    /\ [](\A sid \in SessionIds :
            (Exists(sid) /\ game_session[sid].status = "InProgress")
            => \A kt \in TeamIndexes, vt \in TeamIndexes, k \in Players, v \in Players :
                 ~(Resolves(game_session[sid], kt, k) /\ Resolves(game_session[sid], vt, v))
                 => record_kill(game_session[sid], balance_of, game_session[sid].authority,
                                kt, k, vt, v).err
                       = IF kt \in {0, 1} /\ vt \in {0, 1} THEN "PlayerNotFound"
                         ELSE "InvalidTeam")
    /\ [][ last'.op = "RecordKill"
           => /\ last'.err # "Ok" => NothingChanged
              /\ last'.err = "Ok"
                 => \A sid \in SessionIds, kt \in {0, 1}, vt \in {0, 1} :
                      \A k \in Players : \A v \in Players \ {k} :
                         (Exists(sid) /\ RecordKill(sid, game_session[sid].authority, kt, k, vt, v))
                         => \A s \in Slots(game_session[sid]) :
                              /\ KillsOf(game_session'[sid])[s] # KillsOf(game_session[sid])[s]
                                 => (s[1] = kt /\ PlayerAt(game_session[sid], s) = k)
                              /\ SpawnCounters(game_session'[sid])[s]
                                    # SpawnCounters(game_session[sid])[s]
                                 => (s[1] = vt /\ PlayerAt(game_session[sid], s) = v)
       ]_vars

\* A kill claimed for a player who holds no slot of the session was refused
\* while the match was in progress.
C30_Witness ==
    /\ last.op = "RecordKill"
    /\ last.err = "PlayerNotFound"
    /\ \E sid \in SessionIds, p \in Players :
        /\ Exists(sid)
        /\ game_session[sid].status = "InProgress"
        /\ NotJoined(game_session[sid], p)


\* What a successful purchase by the player of slot `slot` leaves of the
\* session gs: the slot's spawn counter higher by the configured increment,
\* every other counter, the players and the status as they were.
PurchaseBooked(gs, after, slot) ==
    /\ KillsOf(after) = KillsOf(gs)
    /\ \A s \in Slots(gs) :
         SpawnCounters(after)[s] =
            SpawnCounters(gs)[s] + (IF s = slot THEN gs.spawns_per_purchase ELSE 0)
    /\ after.team_a.players = gs.team_a.players
    /\ after.team_b.players = gs.team_b.players
    /\ after.status = gs.status

\* C31: PurchaseSpawns is all-or-nothing.  On success the player's balance
\* is lower by the purchase price, the vault higher by the same amount, the
\* player's spawn counter higher by exactly the session's configured
\* increment and every other counter unchanged; when the debit fails the call
\* fails with InsufficientUserBalance, and a failed call changes no counter
\* and no balance.
C31_PurchaseAllOrNothing ==
    /\ [](\A sid \in SessionIds :
            Exists(sid)
            => \A user \in Players, team \in TeamIndexes :
                 LET gs == game_session[sid]
                     r == pay_to_spawn(gs, balance_of, sid, user, gs.authority, team, clock)
                 IN  /\ r.err = "Ok"
                        => ( /\ r.ledger[user] = balance_of[user] - gs.session_bet
                             /\ r.ledger[sid] = balance_of[sid] + gs.session_bet
                             /\ \A a \in Accounts \ {user, sid} : r.ledger[a] = balance_of[a]
                             /\ PurchaseBooked(gs, r.gs,
                                               <<team, position(get_team(gs, team).players, user)>>) )
                     /\ ( /\ team \in {0, 1}
                          /\ PurchaseInPlay(sid, user, team)
                          /\ SpawnsOf(gs, team, user) + gs.spawns_per_purchase
                                <= MAX_SPAWNS_PER_PLAYER
                          /\ balance_of[user] < gs.session_bet )
                        => r.err = "InsufficientUserBalance")
    /\ [][ last'.op = "PurchaseSpawns"
           => /\ last'.err # "Ok" => NothingChanged
              /\ last'.err = "Ok"
                 => \E sid \in SessionIds, user \in Players, team \in {0, 1} :
                      /\ game_session'[sid] =
                            pay_to_spawn(game_session[sid], balance_of, sid, user,
                                         game_session[sid].authority, team, clock).gs
                      /\ balance_of' =
                            pay_to_spawn(game_session[sid], balance_of, sid, user,
                                         game_session[sid].authority, team, clock).ledger
       ]_vars

\* A purchase was booked: the buyer's spawn counter is above the starting
\* value by an increment other than ten, and the vault holds both stakes and
\* the price.
C31_Witness ==
    /\ last.op = "PurchaseSpawns"
    /\ last.err = "Ok"
    /\ \E sid \in SessionIds, user \in Players, team \in {0, 1} :
        /\ PurchaseInPlay(sid, user, team)
        /\ game_session[sid].spawns_per_purchase # 10
        /\ SpawnsOf(game_session[sid], team, user) > DEFAULT_SPAWN_COUNT
        /\ balance_of[sid] = 3 * game_session[sid].session_bet

\* A purchase failed at the debit.
C31_DebitFailureReached ==
    /\ last.op = "PurchaseSpawns"
    /\ last.err = "InsufficientUserBalance"


\* The session is over: Completed or Distributed.
Over(gs) == gs.status \in {"Completed", "Distributed"}

\* The instructions that settle a session.
Settlements == {"DistributeWinnerTakesAll", "DistributePaySpawnEarnings"}

\* C32: once a session is Completed or Distributed no kill counter and no
\* spawn counter of it changes again.  The only change such a session still
\* takes is that of its status, from Completed to Distributed, by a
\* successful settlement; no instruction on a session that is over finds a
\* kill or a spawn purchase acceptable, and the settlement pays the plan
\* computed from the counters as they stand, which are those MarkCompleted
\* left.
C32_CountersFrozenAfterCompletion ==
    /\ [](\A sid \in SessionIds :
            (Exists(sid) /\ Over(game_session[sid]))
            => LET gs == game_session[sid]
               IN  /\ \A teams \in KillTeams, k \in PlayersOf(gs, 0) \cup PlayersOf(gs, 1) :
                        \A v \in (PlayersOf(gs, 0) \cup PlayersOf(gs, 1)) \ {k} :
                           record_kill(gs, balance_of, gs.authority, teams[1], k,
                                       teams[2], v).err = "InvalidGameState"
                   /\ \A user \in Players, team \in TeamIndexes :
                        pay_to_spawn(gs, balance_of, sid, user, gs.authority, team,
                                     clock).err = "InvalidGameState")
    /\ [][ \/ game_session' = game_session
           \/ \A sid \in SessionIds :
                (Exists(sid) /\ Over(game_session[sid]))
                => \/ game_session'[sid] = game_session[sid]
                   \/ /\ game_session[sid].status = "Completed"
                      /\ game_session'[sid] =
                            [game_session[sid] EXCEPT !.status = "Distributed"]
                      /\ last'.op \in Settlements
                      /\ last'.err = "Ok"
                      /\ \E team \in {0, 1} :
                            distributed'[sid] - distributed[sid] =
                               IF last'.op = "DistributePaySpawnEarnings"
                               THEN SumAmounts(pay_spawn_distributions(game_session'[sid]).plan)
                               ELSE SumAmounts(winner_distributions(game_session'[sid],
                                                                    team).plan)
       ]_vars

\* A kill sent after the match was completed was refused, on a session in
\* which kills had been recorded.
C32_Witness ==
    /\ last.op = "RecordKill"
    /\ last.err = "InvalidGameState"
    /\ \E sid \in SessionIds :
        /\ Exists(sid)
        /\ game_session[sid].status = "Completed"
        /\ \E s \in Slots(game_session[sid]) : KillsOf(game_session[sid])[s] > 0


\* The kills the authority of an InProgress PayToSpawn session may send for
\* two players who hold slots: a kill on a victim without spawns fails with
\* PlayerHasNoSpawns (for every killer, or only for the killers whose
\* counter is below its maximum), and a kill on a victim with spawns by a
\* killer whose counter is below its maximum succeeds.
KillsFollowSpawns(gs, ledger, every_killer) ==
    \A kt \in {0, 1}, vt \in {0, 1} :
        \A k \in PlayersOf(gs, kt) :
            \A v \in PlayersOf(gs, vt) \ {k} :
                LET r == record_kill(gs, ledger, gs.authority, kt, k, vt, v)
                IN  /\ ( /\ SpawnsOf(gs, vt, v) = 0
                         /\ every_killer \/ KillerBelowMax(gs, kt, k) )
                       => r.err = "PlayerHasNoSpawns"
                    /\ ( /\ SpawnsOf(gs, vt, v) > 0
                         /\ KillerBelowMax(gs, kt, k) )
                       => r.err = "Ok"

\* The sessions in which spawns are bought and lost.
InPlayPayToSpawn(sid) ==
    /\ Exists(sid)
    /\ game_session[sid].status = "InProgress"
    /\ game_session[sid].game_mode.kind = "PayToSpawn"

\* A step that replenishes a player without spawns makes that player
\* killable again, and a RecordKill changes the status of no session.
ReplenishedIsKillable ==
    /\ ( last'.op = "PurchaseSpawns" /\ last'.err = "Ok" )
       => \A sid \in SessionIds :
            InPlayPayToSpawn(sid)
            => \A vt \in {0, 1} :
                 \A v \in PlayersOf(game_session[sid], vt) :
                    ( /\ SpawnsOf(game_session[sid], vt, v) = 0
                      /\ SpawnsOf(game_session'[sid], vt, v) > 0 )
                    => \A kt \in {0, 1} :
                         \A k \in PlayersOf(game_session'[sid], kt) \ {v} :
                            KillerBelowMax(game_session'[sid], kt, k)
                            => record_kill(game_session'[sid], balance_of',
                                           game_session'[sid].authority, kt, k, vt, v).err
                                  = "Ok"
    /\ last'.op = "RecordKill"
       => \A sid \in SessionIds :
            Exists(sid) => game_session'[sid].status = game_session[sid].status

\* C33: in a PayToSpawn session a RecordKill against a player whose spawns
\* are 0 is rejected with PlayerHasNoSpawns, and succeeds again once a
\* successful PurchaseSpawns has replenished the player; RecordKill never
\* changes the status, even when every player of a team is at 0 spawns.
C33_KillableAgainAfterPurchase ==
    /\ [](\A sid \in SessionIds :
            InPlayPayToSpawn(sid) => KillsFollowSpawns(game_session[sid], balance_of, TRUE))
    /\ [][ReplenishedIsKillable]_vars

\* The same with the kills on a player without spawns taken only from the
\* killers whose counter is below its maximum.
C33_KillableAgainBelowTheMaximum ==
    /\ [](\A sid \in SessionIds :
            InPlayPayToSpawn(sid) => KillsFollowSpawns(game_session[sid], balance_of, FALSE))
    /\ [][ReplenishedIsKillable]_vars

\* A player who bought spawns has none left, and the kill sent against that
\* player was refused with KillCountOverflow; the session is still
\* InProgress with the whole team at 0 spawns.
C33_Witness ==
    /\ last.op = "RecordKill"
    /\ last.err = "KillCountOverflow"
    /\ \E sid \in SessionIds, vt \in {0, 1} :
        /\ InPlayPayToSpawn(sid)
        /\ deposited[sid] > 2 * game_session[sid].session_bet
        /\ \A v \in PlayersOf(game_session[sid], vt) : SpawnsOf(game_session[sid], vt, v) = 0

\* A player without spawns bought spawns while the killer's counter is below
\* its maximum.
C33_ReplenishedReached ==
    /\ last.op = "PurchaseSpawns"
    /\ last.err = "Ok"
    /\ \E sid \in SessionIds, vt \in {0, 1} :
        /\ InPlayPayToSpawn(sid)
        /\ \E v \in PlayersOf(game_session[sid], vt) :
             SpawnsOf(game_session[sid], vt, v) = game_session[sid].spawns_per_purchase
        /\ \E k \in PlayersOf(game_session[sid], 1 - vt) :
             /\ KillerBelowMax(game_session[sid], 1 - vt, k)
             /\ get_team(game_session[sid], 1 - vt).player_kills[
                    position(get_team(game_session[sid], 1 - vt).players, k)] > 0


\* Every slot of the session has no kill and the given number of spawns.
FreshCounters(gs, spawns) ==
    \A s \in Slots(gs) : KillsOf(gs)[s] = 0 /\ SpawnCounters(gs)[s] = spawns

C35_ExpiredSessionRefusesJoins ==
    /\ [](\A sid \in SessionIds :
            Exists(sid)
            => LET gs == game_session[sid]
               IN  /\ gs.expires_at > gs.created_at
                   /\ clock >= gs.expires_at
                      => \A user \in Players, srv \in Servers, team \in TeamIndexes :
                           LET r == join_user(gs, balance_of, sid, user, srv, team, clock)
                           IN  /\ r.err # "Ok"
                               /\ ( /\ srv = gs.authority
                                    /\ team \in {0, 1}
                                    /\ gs.status = "WaitingForPlayers"
                                    /\ get_empty_slot(get_team(gs, team),
                                                      players_per_team(gs.game_mode)) # 0
                                    /\ NotJoined(gs, user)
                                    /\ balance_of[user] >= gs.session_bet )
                                  => r.err = "GameSessionExpired")
    /\ [][ last'.op = "JoinTeam"
           => /\ last'.err # "Ok" => NothingChanged
              /\ \A sid \in SessionIds :
                   (Exists(sid) /\ clock >= game_session[sid].expires_at)
                   => /\ game_session'[sid] = game_session[sid]
                      /\ balance_of' = balance_of
                      /\ deposited' = deposited
       ]_vars

\* A join that nothing but the expiry of the session stands against was
\* refused: the slot is empty and the stake is with the player.
C35_Witness ==
    /\ last.op = "JoinTeam"
    /\ last.err = "GameSessionExpired"
    /\ \E sid \in SessionIds, user \in Players, team \in {0, 1} :
        /\ Exists(sid)
        /\ clock >= game_session[sid].expires_at
        /\ game_session[sid].status = "WaitingForPlayers"
        /\ NotJoined(game_session[sid], user)
        /\ get_empty_slot(get_team(game_session[sid], team),
                          players_per_team(game_session[sid].game_mode)) # 0
        /\ balance_of[user] >= game_session[sid].session_bet


\* The step is an instruction on session sid, of the kind `last` names.
OnSession(sid) ==
    \/ /\ last'.op = "CreateSession"
       /\ \E c \in PairConfigs :
            CreateSession(sid, "gameServer", c.bet_amount, c.game_mode, c.spawns_per_purchase)
    \/ /\ last'.op = "JoinTeam"
       /\ \E user \in Players, team \in {0, 1} : JoinTeam(sid, user, "gameServer", team)
    \/ /\ last'.op = "RecordKill"
       /\ \E teams \in PairKillTeams, k \in Players :
            \E v \in Players \ {k} :
               RecordKill(sid, "gameServer", teams[1], k, teams[2], v)
    \/ /\ last'.op = "PurchaseSpawns"
       /\ \E user \in Players, team \in {0, 1} : PurchaseSpawns(sid, user, "gameServer", team)
    \/ /\ last'.op = "MarkCompleted"
       /\ MarkCompleted(sid, "gameServer")
    \/ /\ last'.op = "DistributeWinnerTakesAll"
       /\ \E team \in {0, 1} : DistributeWinnerTakesAll(sid, "gameServer", team, {})
    \/ /\ last'.op = "DistributePaySpawnEarnings"
       /\ DistributePaySpawnEarnings(sid, "gameServer", {})

\* The step left the session and its vault as they were.
Untouched(sid) ==
    /\ game_session'[sid] = game_session[sid]
    /\ balance_of'[sid] = balance_of[sid]
    /\ deposited'[sid] = deposited[sid]
    /\ distributed'[sid] = distributed[sid]

\* C36: sessions are independent.  An instruction on one session, whether it
\* succeeds or fails, leaves the teams, the counters, the status and the
\* vault balance of every other session unchanged; every vault holds what
\* its own session received less what its own session paid, and what a
\* settlement pays leaves the vault of the settled session.
C36_SessionsAreIndependent ==
    /\ [](\A sid \in AllSessionIds : balance_of[sid] = deposited[sid] - distributed[sid])
    /\ [][ \/ \A sid \in AllSessionIds : Untouched(sid)
           \/ \A sid \in AllSessionIds :
                OnSession(sid)
                => /\ \A other \in AllSessionIds \ {sid} : Untouched(other)
                   /\ (last'.op \in Settlements /\ last'.err = "Ok")
                      => balance_of[sid] - balance_of'[sid]
                            = distributed'[sid] - distributed[sid]
       ]_vars

\* A session was settled while another session, with a player of the settled
\* session in it, held its stakes: the other vault still holds them.
C36_Witness ==
    /\ last.op \in Settlements
    /\ last.err = "Ok"
    /\ \E sid \in AllSessionIds, other \in AllSessionIds :
        /\ sid # other
        /\ Exists(sid)
        /\ Exists(other)
        /\ game_session[sid].status = "Distributed"
        /\ distributed[sid] > 0
        /\ game_session[other].status = "InProgress"
        /\ balance_of[other] = 2 * game_session[other].session_bet
        /\ \E p \in Players : ~NotJoined(game_session[sid], p) /\ ~NotJoined(game_session[other], p)


\* The sum of a counter over a set of slots.
RECURSIVE SumOver(_, _)
SumOver(counters, slots) ==
    IF slots = {} THEN 0
    ELSE LET s == CHOOSE x \in slots : TRUE
         IN  counters[s] + SumOver(counters, slots \ {s})

\* kills + spawns over every slot of the session.
TotalKillsAndSpawns(gs) ==
    SumOver(KillsOf(gs), Slots(gs)) + SumOver(SpawnCounters(gs), Slots(gs))

\* C37: every successful RecordKill raises the killer's kill counter by
\* exactly 1, lowers the victim's spawn counter by exactly 1 and changes no
\* other counter, so that the sum of kills + spawns over the slots of a
\* session is unchanged by RecordKill: it changes only in a successful
\* PurchaseSpawns, by the session's increment.
C37_KillsAndSpawnsConserved ==
    /\ [](\A sid \in SessionIds :
            Exists(sid)
            => \A teams \in KillTeams, k \in Players :
                 \A v \in Players \ {k} :
                    LET gs == game_session[sid]
                        r == record_kill(gs, balance_of, gs.authority, teams[1], k, teams[2], v)
                        killer == <<teams[1], position(get_team(gs, teams[1]).players, k)>>
                        victim == <<teams[2], position(get_team(gs, teams[2]).players, v)>>
                    IN  r.err = "Ok"
                        => /\ \A s \in Slots(gs) :
                                /\ KillsOf(r.gs)[s] =
                                      KillsOf(gs)[s] + (IF s = killer THEN 1 ELSE 0)
                                /\ SpawnCounters(r.gs)[s] =
                                      SpawnCounters(gs)[s] - (IF s = victim THEN 1 ELSE 0)
                           /\ TotalKillsAndSpawns(r.gs) = TotalKillsAndSpawns(gs))
    /\ [][ \/ game_session' = game_session
           \/ \A sid \in SessionIds :
                Exists(sid)
                => /\ last'.op = "RecordKill"
                      => game_session'[sid] \in
                            { record_kill(game_session[sid], balance_of,
                                          game_session[sid].authority,
                                          teams[1], kv[1], teams[2], kv[2]).gs :
                                 teams \in KillTeams, kv \in Players \X Players }
                   /\ TotalKillsAndSpawns(game_session'[sid]) =
                         TotalKillsAndSpawns(game_session[sid])
                            + (IF last'.op = "PurchaseSpawns"
                               THEN game_session[sid].spawns_per_purchase ELSE 0)
       ]_vars

\* A kill was recorded in a session in which spawns had been bought: the
\* total is that of the start plus the increment.
C37_Witness ==
    /\ last.op = "RecordKill"
    /\ last.err = "Ok"
    /\ \E sid \in SessionIds :
        /\ InPlayPayToSpawn(sid)
        /\ deposited[sid] = 3 * game_session[sid].session_bet
        /\ TotalKillsAndSpawns(game_session[sid]) =
              2 * DEFAULT_SPAWN_COUNT + game_session[sid].spawns_per_purchase
        /\ \E s \in Slots(game_session[sid]) : KillsOf(game_session[sid])[s] > 1


\* kills + spawns over the players who joined the session.
JoinedKillsAndSpawns(gs) ==
    SumOver([p \in Players |-> KillsAndSpawns(gs, p)], PlayersOf(gs, 0) \cup PlayersOf(gs, 1))

\* C38: in a PayToSpawn session whose players start with 10 spawns, buy 10
\* spawns at a time and pay bet_amount for them, every state before
\* distribution has 10 x vault balance = bet_amount x (kills + spawns over
\* the joined players); once the session is Completed the total of
\* DistributePaySpawnEarnings is at most the vault balance and the call does
\* not fail with InsufficientVaultBalance.
C38_VaultCoversEarnings ==
    /\ [](\A sid \in SessionIds :
            ( /\ Exists(sid)
              /\ game_session[sid].game_mode.kind = "PayToSpawn"
              /\ game_session[sid].spawns_per_purchase = 10
              /\ game_session[sid].status # "Distributed" )
            => LET gs == game_session[sid]
               IN  /\ 10 * balance_of[sid] = gs.session_bet * JoinedKillsAndSpawns(gs)
                   /\ gs.status = "Completed"
                      => /\ pay_spawn_distributions(gs).err = "Ok"
                         /\ SumAmounts(pay_spawn_distributions(gs).plan) <= balance_of[sid]
                         /\ \A rej \in Rejecting :
                              distribute_pay_spawn_earnings(gs, balance_of, sid, gs.authority,
                                                            rej).err
                                 \in {"Ok", "TransferFailed"})
    /\ [][ last'.op = "DistributePaySpawnEarnings"
           => last'.err # "InsufficientVaultBalance" ]_vars

\* The earnings of a session with a spawn purchase and an odd number of kills
\* were paid, and the tenths lost in the division are left in the vault.
C38_Witness ==
    /\ last.op = "DistributePaySpawnEarnings"
    /\ last.err = "Ok"
    /\ \E sid \in SessionIds :
        /\ Exists(sid)
        /\ game_session[sid].status = "Distributed"
        /\ game_session[sid].spawns_per_purchase = 10
        /\ deposited[sid] = 3 * game_session[sid].session_bet
        /\ distributed[sid] > 2 * game_session[sid].session_bet
        /\ balance_of[sid] > 0

\* A session of the tests is Completed with a purchase and kills booked.
C38_CompletedReached ==
    \E sid \in SessionIds :
        /\ Exists(sid)
        /\ game_session[sid].status = "Completed"
        /\ deposited[sid] = 3 * game_session[sid].session_bet
        /\ JoinedKillsAndSpawns(game_session[sid]) = 30
        /\ \E s \in Slots(game_session[sid]) : KillsOf(game_session[sid])[s] = KillCounterMax


\* C39: in every reachable state where a WinnerTakesAll session is
\* Completed both teams are full and the vault balance is 2 x the players
\* per team x the bet amount, so that DistributeWinnerTakesAll signed by the
\* authority for team 0 and for team 1 finds the vault sufficient: it
\* succeeds when every recipient can be credited and never fails with
\* InsufficientVaultBalance.
C39_CompletedWinnerTakesAllIsPayable ==
    /\ [](\A sid \in SessionIds :
            ( /\ Exists(sid)
              /\ game_session[sid].game_mode.kind = "WinnerTakesAll"
              /\ game_session[sid].status = "Completed" )
            => LET gs == game_session[sid]
               IN  /\ TeamFull(gs, 0)
                   /\ TeamFull(gs, 1)
                   /\ balance_of[sid] = 2 * players_per_team(gs.game_mode) * gs.session_bet
                   /\ \A team \in {0, 1} :
                        /\ SumAmounts(winner_distributions(gs, team).plan) <= balance_of[sid]
                        /\ distribute_all_winnings_handler(gs, balance_of, sid, gs.authority,
                                                           team, {}).err = "Ok"
                        /\ \A rej \in Rejecting :
                             distribute_all_winnings_handler(gs, balance_of, sid,
                                                             gs.authority, team, rej).err
                                # "InsufficientVaultBalance")
    /\ [][ last'.op = "DistributeWinnerTakesAll"
           => \A sid \in SessionIds :
                (Exists(sid) /\ game_session[sid].game_mode.kind = "WinnerTakesAll")
                => last'.err # "InsufficientVaultBalance" ]_vars

\* A WinnerTakesAll match with one kill was completed and is not yet
\* settled: the vault holds both stakes.
C39_Witness ==
    /\ last.op = "MarkCompleted"
    /\ last.err = "Ok"
    /\ \E sid \in SessionIds :
        /\ Exists(sid)
        /\ game_session[sid].game_mode.kind = "WinnerTakesAll"
        /\ game_session[sid].status = "Completed"
        /\ balance_of[sid] = 2 * game_session[sid].session_bet
        /\ TotalKillsAndSpawns(game_session[sid]) = 2 * WTA_SPAWN_COUNT
        /\ \E s \in Slots(game_session[sid]) : KillsOf(game_session[sid])[s] = 1


\* C40: once a slot is occupied by a player it is neither vacated nor
\* reassigned: on every step each occupied slot of each session keeps its
\* player, so that the kill and spawn counters of a slot belong to the
\* player who first claimed it; a join never lands on an occupied slot.
C40_SlotsKeepTheirPlayer ==
    /\ [](\A sid \in SessionIds :
            Exists(sid)
            => \A user \in Players, team \in {0, 1} :
                 LET gs == game_session[sid]
                     r == join_user(gs, balance_of, sid, user, gs.authority, team, clock)
                 IN  r.err = "Ok"
                     => \A s \in Slots(gs) :
                          IF PlayerAt(gs, s) # Empty
                          THEN PlayerAt(r.gs, s) = PlayerAt(gs, s)
                          ELSE PlayerAt(r.gs, s) \in {Empty, user})
    /\ [][ \/ game_session' = game_session
           \/ \A sid \in SessionIds :
                Exists(sid)
                => /\ Exists(sid)'
                   /\ \A s \in Slots(game_session[sid]) :
                        PlayerAt(game_session[sid], s) # Empty
                        => PlayerAt(game_session'[sid], s) = PlayerAt(game_session[sid], s)
       ]_vars

\* The session was played and settled, and the slots still hold the players
\* who claimed them: one with kills, one without spawns left.
C40_Witness ==
    \E sid \in SessionIds :
        /\ Exists(sid)
        /\ game_session[sid].status = "Distributed"
        /\ \A s \in Slots(game_session[sid]) : PlayerAt(game_session[sid], s) # Empty
        /\ \E s \in Slots(game_session[sid]) : KillsOf(game_session[sid])[s] > 0
        /\ \E s \in Slots(game_session[sid]) : SpawnCounters(game_session[sid])[s] = 0

\* A join for a team whose slot is held was refused and the holder kept the
\* slot.
C40_TakenSlotReached ==
    /\ last.op = "JoinTeam"
    /\ last.err = "TeamIsFull"
    /\ \E sid \in SessionIds, team \in {0, 1} :
        /\ Exists(sid)
        /\ TeamFull(game_session[sid], team)
        /\ ~TeamFull(game_session[sid], 1 - team)

====
